---- MODULE Spec2Model ----
(***************************************************************************)
(* A model of the FI library (src/fi/fi.py): a catalogue of stateless      *)
(* personal-finance formulas.  Each library call is one action: it draws   *)
(* its arguments from small sets, evaluates the function as the source     *)
(* computes it and records the outcome (a number, +inf, NaN, or the        *)
(* exception that propagates to the caller).  Each console command of      *)
(* src/fi_commands.py is one action as well: a process that parses its     *)
(* command line, converts the strings, calls the library, prints and       *)
(* exits; standard output, standard error and the exit status are state.   *)
(* So are the warning registry of the module, which outlives a call, and   *)
(* the life table a call has read.                                         *)
(*                                                                         *)
(* Numbers.  Python ints, floats and Decimals are modelled as exact        *)
(* rationals over arbitrary-precision naturals (TLC's own integers are     *)
(* 32 bits wide and 1.07^31 does not fit).  Binary and 28-digit decimal    *)
(* rounding of intermediate values is modelled where the last digit        *)
(* decides what is observed: the floats of redeem_points,                  *)
(* average_daily_spend and days_covered_by_fi, the Decimals of             *)
(* remaining_life_expectancy.  The explicit rounding steps of the source   *)
(* (round, quantize, int) are modelled everywhere.                         *)
(***************************************************************************)
EXTENDS Integers, Sequences, FiniteSets, TLC

VARIABLES pc, fn, args, result, warned, stdout, stderr, status, registry, life_table

vars == <<pc, fn, args, result, warned, stdout, stderr, status, registry, life_table>>

-----------------------------------------------------------------------------
(* Arbitrary-precision naturals: little-endian sequences of limbs in       *)
(* 0..Base-1 without leading zero limbs; zero is the empty sequence.       *)
(* The operators avoid deep recursion: sums and products are formed limb   *)
(* by limb in one step and the carries are then spread in a few passes.    *)

Base == 10^3

Limb(a, i) == IF 1 <= i /\ i <= Len(a) THEN a[i] ELSE 0

\* the index of the most significant non-zero limb among 1..i, or 0
RECURSIVE BTop(_, _)
BTop(a, i) == IF i = 0 THEN 0 ELSE IF a[i] # 0 THEN i ELSE BTop(a, i - 1)

\* the sequence without its leading (most significant) zero limbs
BTrim(a) ==
    IF \A i \in 1..Len(a) : a[i] = 0 THEN <<>> ELSE SubSeq(a, 1, BTop(a, Len(a)))

\* One pass of carry spreading over limbs of any size (negative limbs borrow):
\* the value sum of x[i] * Base^(i-1) is kept.
RECURSIVE BCarry(_)
BCarry(x) ==
    IF \A i \in 1..Len(x) : 0 <= x[i] /\ x[i] < Base
    THEN BTrim(x)
    ELSE BCarry([i \in 1..(Len(x) + 1) |->
                    (IF i <= Len(x) THEN x[i] % Base ELSE 0)
                  + (IF i > 1 THEN x[i - 1] \div Base ELSE 0)])

RECURSIVE BNat(_)
BNat(n) == IF n = 0 THEN <<>> ELSE <<n % Base>> \o BNat(n \div Base)

MaxLen(a, b) == IF Len(a) >= Len(b) THEN Len(a) ELSE Len(b)

BAdd(a, b) == BCarry([i \in 1..MaxLen(a, b) |-> Limb(a, i) + Limb(b, i)])

\* a - b for a >= b
BSub(a, b) == BCarry([i \in 1..MaxLen(a, b) |-> Limb(a, i) - Limb(b, i)])

\* a * m for a machine integer 0 <= m <= 2 * 10^6
BMulSmall(a, m) == BCarry([i \in 1..Len(a) |-> a[i] * m])

\* the sum of a[k + 1 - j] * b[j] for j in lo..hi: column k of the product
RECURSIVE BColumn(_, _, _, _, _)
BColumn(a, b, k, lo, hi) ==
    IF lo > hi THEN 0
    ELSE IF lo = hi THEN a[k + 1 - lo] * b[lo]
    ELSE LET mid == (lo + hi) \div 2
         IN  BColumn(a, b, k, lo, mid) + BColumn(a, b, k, mid + 1, hi)

BMul(a, b) ==
    IF a = <<>> \/ b = <<>>
    THEN <<>>
    ELSE BCarry([k \in 1..(Len(a) + Len(b) - 1) |->
                    BColumn(a, b, k,
                            IF k + 1 - Len(a) > 1 THEN k + 1 - Len(a) ELSE 1,
                            IF k < Len(b) THEN k ELSE Len(b))])

\* the highest index in lo..hi where a and b differ (they differ somewhere)
RECURSIVE BTopDiff(_, _, _, _)
BTopDiff(a, b, lo, hi) ==
    IF lo = hi THEN lo
    ELSE LET mid == (lo + hi) \div 2
         IN  IF SubSeq(a, mid + 1, hi) = SubSeq(b, mid + 1, hi)
             THEN BTopDiff(a, b, lo, mid)
             ELSE BTopDiff(a, b, mid + 1, hi)

\* -1, 0 or 1 as a < b, a = b, a > b
BCmp(a, b) ==
    IF Len(a) < Len(b) THEN -1
    ELSE IF Len(a) > Len(b) THEN 1
    ELSE IF a = b THEN 0
    ELSE LET i == BTopDiff(a, b, 1, Len(a))
         IN  IF a[i] < b[i] THEN -1 ELSE 1

RECURSIVE BPow(_, _)
BPow(a, k) ==
    IF k = 0
    THEN <<1>>
    ELSE LET h  == BPow(a, k \div 2)
             sq == BMul(h, h)
         IN  IF k % 2 = 0 THEN sq ELSE BMul(sq, a)

\* the largest q in lo..hi with b * q <= r
RECURSIVE BQDigit(_, _, _, _)
BQDigit(r, b, lo, hi) ==
    IF lo = hi
    THEN lo
    ELSE LET mid == (lo + hi + 1) \div 2
         IN  IF BCmp(BMulSmall(b, mid), r) <= 0
             THEN BQDigit(r, b, mid, hi)
             ELSE BQDigit(r, b, lo, mid - 1)

\* long division, most significant limb first: limbs i..1 of a are still to
\* be brought down, rem < b is the remainder so far, q the quotient so far
RECURSIVE BDivModFrom(_, _, _, _, _)
BDivModFrom(a, b, i, rem, q) ==
    IF i = 0
    THEN [q |-> q, r |-> rem]
    ELSE LET cur == BTrim(<<a[i]>> \o rem)
             qd  == BQDigit(cur, b, 0, Base - 1)
             nr  == BSub(cur, BMulSmall(b, qd))
         IN  \* the length test makes TLC evaluate nr before it descends
             IF Len(nr) >= 0
             THEN BDivModFrom(a, b, i - 1, nr, <<qd>> \o q)
             ELSE [q |-> q, r |-> rem]

\* floor division and remainder of naturals, b # 0
BDivMod(a, b) ==
    LET skip == IF Len(a) >= Len(b) THEN Len(b) - 1 ELSE Len(a)
        dm   == BDivModFrom(a, b, Len(a) - skip,
                            SubSeq(a, Len(a) - skip + 1, Len(a)), <<>>)
    IN  [q |-> BTrim(dm.q), r |-> dm.r]

BIsEven(a) == BDivMod(a, <<2>>).r = <<>>

-----------------------------------------------------------------------------
(* Exact rationals: a sign, a numerator and a non-zero denominator.  They  *)
(* are not kept in lowest terms; REq and RCmp compare by cross             *)
(* multiplication.                                                         *)

Abs(i) == IF i < 0 THEN -i ELSE i

RECURSIVE Gcd(_, _)
Gcd(i, j) == IF j = 0 THEN i ELSE Gcd(j, i % j)

\* the machine integer a natural fits in
RECURSIVE BInt(_)
BInt(a) == IF a = <<>> THEN 0 ELSE a[1] + Base * BInt(Tail(a))

\* the rational (-1)^neg * n / d; brought to lowest terms when numerator and
\* denominator are below 10^9
RMk(neg, n, d) ==
    IF Len(n) <= 3 /\ Len(d) <= 3
    THEN LET g == Gcd(BInt(n), BInt(d))
         IN  [neg |-> neg /\ n # <<>>,
              n   |-> BNat(BInt(n) \div g),
              d   |-> BNat(BInt(d) \div g)]
    ELSE [neg |-> neg /\ n # <<>>, n |-> n, d |-> d]

RI(i) == RMk(i < 0, BNat(Abs(i)), <<1>>)

\* the rational i / j of two machine integers, j > 0
RQ(i, j) == RMk(i < 0, BNat(Abs(i)), BNat(j))

RZero == RI(0)

RIsZero(x) == x.n = <<>>

RNeg(x) == RMk(~x.neg, x.n, x.d)

RAbs(x) == RMk(FALSE, x.n, x.d)

\* whether b divides a, tried only when the quotient is short (long division
\* descends once per quotient limb)
BDivides(b, a) ==
    \/ b = <<1>>
    \/ a = b
    \/ /\ Len(a) >= Len(b)
       /\ Len(a) - Len(b) <= 40
       /\ BDivMod(a, b).r = <<>>

BQuot(a, b) == IF b = <<1>> THEN a ELSE BDivMod(a, b).q

\* x + y over the denominator of x when the denominator of y divides it (or
\* the other way round), over the product of the two otherwise
RAdd(x, y) ==
    LET xy == BDivides(y.d, x.d)
        yx == ~xy /\ BDivides(x.d, y.d)
        a  == IF xy THEN x.n
              ELSE IF yx THEN BMul(x.n, BQuot(y.d, x.d))
              ELSE BMul(x.n, y.d)
        b  == IF xy THEN BMul(y.n, BQuot(x.d, y.d))
              ELSE IF yx THEN y.n
              ELSE BMul(y.n, x.d)
        d  == IF xy THEN x.d
              ELSE IF yx THEN y.d
              ELSE BMul(x.d, y.d)
    IN  IF x.neg = y.neg
        THEN RMk(x.neg, BAdd(a, b), d)
        ELSE IF BCmp(a, b) >= 0
             THEN RMk(x.neg, BSub(a, b), d)
             ELSE RMk(y.neg, BSub(b, a), d)

RSub(x, y) == RAdd(x, RNeg(y))

RMul(x, y) == RMk(x.neg # y.neg, BMul(x.n, y.n), BMul(x.d, y.d))

\* x / y for y # 0
RDiv(x, y) == RMk(x.neg # y.neg, BMul(x.n, y.d), BMul(x.d, y.n))

\* -1, 0 or 1 as x < y, x = y, x > y
RCmp(x, y) ==
    IF x.neg # y.neg
    THEN (IF x.neg THEN -1 ELSE 1)
    ELSE LET c == BCmp(BMul(x.n, y.d), BMul(y.n, x.d))
         IN  IF x.neg THEN -c ELSE c

REq(x, y) == RCmp(x, y) = 0
RLt(x, y) == RCmp(x, y) < 0
RLe(x, y) == RCmp(x, y) <= 0

\* x ** k for an integer k (x # 0 when k < 0)
RPow(x, k) ==
    IF k >= 0
    THEN RMk(x.neg /\ k % 2 = 1, BPow(x.n, k), BPow(x.d, k))
    ELSE RMk(x.neg /\ (-k) % 2 = 1, BPow(x.d, -k), BPow(x.n, -k))

\* the integer nearest to zero among floor(x) and ceiling(x): Python's int(x)
RTrunc(x) == RMk(x.neg, BDivMod(x.n, x.d).q, <<1>>)

RIsInt(x) == BDivMod(x.n, x.d).r = <<>>

\* x rounded to an integer, exact halves to the even neighbour: Python's round(x)
RRoundHalfEven(x) ==
    LET dm   == BDivMod(x.n, x.d)
        twice == BCmp(BMulSmall(dm.r, 2), x.d)
        up   == twice > 0 \/ (twice = 0 /\ ~BIsEven(dm.q))
    IN  RMk(x.neg, IF up THEN BAdd(dm.q, <<1>>) ELSE dm.q, <<1>>)

\* x rounded to an integer, exact halves away from zero: decimal.ROUND_HALF_UP
RRoundHalfUp(x) ==
    LET dm == BDivMod(x.n, x.d)
        up == BCmp(BMulSmall(dm.r, 2), x.d) >= 0
    IN  RMk(x.neg, IF up THEN BAdd(dm.q, <<1>>) ELSE dm.q, <<1>>)

\* the machine integer an integral rational fits in
RInt(x) == IF x.neg THEN -BInt(BDivMod(x.n, x.d).q) ELSE BInt(BDivMod(x.n, x.d).q)

\* IEEE 754 binary64, where the source rounds a float to cents (the only
\* place where the last bit of a float decides the result).
\* The largest e in lo..hi with 2^(52 + e) <= x, for 2^(52 + lo) <= x:
\* x / 2^e is then in [2^52, 2^53) unless x is beyond 2^(53 + hi)
RECURSIVE FloatExp(_, _, _)
FloatExp(x, lo, hi) ==
    IF lo = hi THEN lo
    ELSE LET mid == (lo + hi + 1) \div 2
         IN  IF RLe(RPow(RI(2), 52 + mid), x)
             THEN FloatExp(x, mid, hi)
             ELSE FloatExp(x, lo, mid - 1)

\* the double nearest to x, ties to the even significand
Float(x) ==
    IF RIsZero(x) THEN RZero
    ELSE LET e == FloatExp(RAbs(x), -128, 128)
             r == RMul(RRoundHalfEven(RDiv(RAbs(x), RPow(RI(2), e))),
                       RPow(RI(2), e))
         IN  IF x.neg THEN RNeg(r) ELSE r

\* decimal's default context keeps 28 significant digits, exact halves to the
\* even digit.  The largest e in lo..hi with 10^(27 + e) <= x:
RECURSIVE DecExp(_, _, _)
DecExp(x, lo, hi) ==
    IF lo = hi THEN lo
    ELSE LET mid == (lo + hi + 1) \div 2
         IN  IF RLe(RPow(RI(10), 27 + mid), x)
             THEN DecExp(x, mid, hi)
             ELSE DecExp(x, lo, mid - 1)

\* the result of an arithmetic operation on Decimals whose exact value is x
DecRound(x) ==
    IF RIsZero(x) THEN RZero
    ELSE LET e == DecExp(RAbs(x), -64, 64)
         IN  RMul(RRoundHalfEven(RDiv(x, RPow(RI(10), e))), RPow(RI(10), e))

-----------------------------------------------------------------------------
(* What a call yields: a number, an IEEE special value, or the exception   *)
(* that leaves the function.                                               *)

Num(x)   == [kind |-> "num",   val |-> x,     exc |-> "none"]
PosInf   == [kind |-> "inf",   val |-> RZero, exc |-> "none"]
NegInf   == [kind |-> "-inf",  val |-> RZero, exc |-> "none"]
NaN      == [kind |-> "nan",   val |-> RZero, exc |-> "none"]
Raise(e) == [kind |-> "raise", val |-> RZero, exc |-> e]
NoValue  == [kind |-> "none",  val |-> RZero, exc |-> "none"]

\* a returned dict
Dict(d) == [kind |-> "dict", val |-> d, exc |-> "none"]

Raises(v) == v.kind = "raise"

\* evaluation continues with F on the number v holds; an exception propagates
Bind(v, F(_)) == IF v.kind = "num" THEN F(v.val) ELSE v

\* x / y on Python ints and floats
PyDiv(x, y) == IF RIsZero(y) THEN Raise("ZeroDivisionError") ELSE Num(RDiv(x, y))

\* x / y on Python ints and floats, the quotient rounded to the nearest float
FloatDiv(x, y) ==
    IF RIsZero(y) THEN Raise("ZeroDivisionError") ELSE Num(Float(RDiv(x, y)))

\* x / y on decimal.Decimal under the default context: DivisionByZero is
\* signalled for x / 0 and InvalidOperation for 0 / 0
DecDiv(x, y) ==
    IF ~RIsZero(y) THEN Num(RDiv(x, y))
    ELSE IF RIsZero(x) THEN Raise("InvalidOperation")
    ELSE Raise("DivisionByZero")

\* decimal.DivisionByZero derives from ZeroDivisionError, decimal.InvalidOperation
\* does not
ZeroDivisionErrors == {"ZeroDivisionError", "DivisionByZero"}

\* try: v  except (ZeroDivisionError): h
ExceptZeroDivision(v, h) ==
    IF v.kind = "raise" /\ v.exc \in ZeroDivisionErrors THEN h ELSE v

-----------------------------------------------------------------------------
(* The library functions.  Arguments are rationals.                        *)

annual_cost(cost, used_price, years_in_service) ==
    DecDiv(RSub(cost, used_price), years_in_service)

average_daily_spend(money_spent, num_days) == FloatDiv(money_spent, num_days)

buy_a_day_of_freedom(annual_spend, safe_withdrawal_rate) ==
    Bind(average_daily_spend(annual_spend, RI(365)),
         LAMBDA spend : PyDiv(spend, RDiv(safe_withdrawal_rate, RI(100))))

\* the years counted from retirement back to now
coast_fi_ages_swapped(target_fi_num, eiar, retirement_age, current_age) ==
    DecDiv(target_fi_num,
           RPow(RAdd(RI(1), RDiv(eiar, RI(100))),
                RInt(RSub(current_age, retirement_age))))

coast_fi(target_fi_num, eiar, retirement_age, current_age) ==
    DecDiv(target_fi_num,
           RPow(RAdd(RI(1), RDiv(eiar, RI(100))),
                RInt(RSub(retirement_age, current_age))))

\* the resale price left out of the cost
cost_per_use_ignoring_used_price(your_cost, used_price, times_used) ==
    annual_cost(your_cost, RZero, times_used)

cost_per_use(your_cost, used_price, times_used) ==
    annual_cost(your_cost, used_price, times_used)

\* every operation is one on floats: the rate as a fraction, the yearly
\* withdrawal and the quotient are each rounded to the nearest float
days_covered_by_fi(annual_spend, stash, withdrawal_rate) ==
    Bind(average_daily_spend(annual_spend, RI(365)),
         LAMBDA spend :
            FloatDiv(Float(RMul(stash, Float(RDiv(withdrawal_rate, RI(100))))),
                     spend))

\* a zero withdrawal rate answered with 0 instead of an exception
fi_number_zero_on_zero_rate(planned_yearly_expenses, withdrawal_rate) ==
    IF RIsZero(withdrawal_rate) THEN Num(RI(0))
    ELSE DecDiv(RMul(planned_yearly_expenses, RI(100)), withdrawal_rate)

\* the withdrawal rate taken as a fraction instead of a percentage
fi_number_rate_as_fraction(planned_yearly_expenses, withdrawal_rate) ==
    DecDiv(planned_yearly_expenses, withdrawal_rate)

fi_number(planned_yearly_expenses, withdrawal_rate) ==
    DecDiv(RMul(planned_yearly_expenses, RI(100)), withdrawal_rate)

\* round(x, 2) and round(x): exact halves go to the even neighbour
Round2(x) == RDiv(RRoundHalfEven(RMul(x, RI(100))), RI(100))

\* the value returned (or the exception raised) and whether warnings.warn ran
\* the precise percentage on every path
get_percentage_never_rounding(a, b, i, r) ==
    LET quotient == PyDiv(a, b)
    IN  [ret    |-> Bind(quotient, LAMBDA x : Num(RMul(RI(100), x))),
         warned |-> i /\ ~r /\ ~Raises(quotient)]

get_percentage(a, b, i, r) ==
    LET quotient   == PyDiv(a, b)
        percentage ==
            IF ~i /\ r
            THEN Bind(quotient, LAMBDA x : Num(Round2(RMul(RI(100), x))))
            ELSE IF i
            THEN Bind(quotient, LAMBDA x : Num(RRoundHalfEven(RMul(RI(100), x))))
            ELSE Bind(quotient, LAMBDA x : Num(RMul(RI(100), x)))
    IN  [ret |-> percentage, warned |-> i /\ ~r /\ ~Raises(quotient)]

\* a wage of zero not caught
hours_of_life_energy_unguarded(money_spent, real_hourly_wage_) ==
    PyDiv(money_spent, real_hourly_wage_)

hours_of_life_energy(money_spent, real_hourly_wage_) ==
    ExceptZeroDivision(PyDiv(money_spent, real_hourly_wage_), Num(RI(0)))

\* the division left outside any try block
percent_decrease_unguarded(original_value, final_value) ==
    Bind(PyDiv(RSub(original_value, final_value), original_value),
         LAMBDA x : Num(RAbs(RMul(x, RI(100)))))

percent_decrease(original_value, final_value) ==
    ExceptZeroDivision(
        Bind(PyDiv(RSub(original_value, final_value), original_value),
             LAMBDA x : Num(RAbs(RMul(x, RI(100))))),
        NaN)

\* the change divided by the original value with its sign
percent_increase_by_signed_original(original_value, final_value) ==
    ExceptZeroDivision(
        Bind(PyDiv(RSub(final_value, original_value), original_value),
             LAMBDA x : Num(RMul(x, RI(100)))),
        NaN)

percent_increase(original_value, final_value) ==
    ExceptZeroDivision(
        Bind(PyDiv(RSub(final_value, original_value), RAbs(original_value)),
             LAMBDA x : Num(RMul(x, RI(100)))),
        NaN)

pot_score(median_starting_salary, hourly_minimum_wage, total_tuition_cost) ==
    LET annual_minimum_wage == RMul(RMul(hourly_minimum_wage, RI(40)), RI(52))
    IN  DecDiv(RSub(median_starting_salary, annual_minimum_wage),
               total_tuition_cost)

real_hourly_wage(hours_worked, money_paid, benefits, additional_work_related_hours, additional_work_related_expenses) ==
    LET real_pay   == RSub(RAdd(money_paid, benefits),
                           additional_work_related_expenses)
        real_hours == RAdd(hours_worked, additional_work_related_hours)
    IN  PyDiv(real_pay, real_hours)

\* Decimal(x).quantize(CENTS, ROUND_HALF_UP)
QuantizeCents(x) == RDiv(RRoundHalfUp(RMul(x, RI(100))), RI(100))

redeem_points(points, rate) ==
    Num(QuantizeCents(Float(RMul(points, Float(RDiv(rate, RI(100)))))))

\* rate defaults to 1 when the call gives the points alone
call_redeem_points(a) ==
    redeem_points(RI(a[1]), IF Len(a) = 1 THEN RI(1) ELSE RQ(a[2], 100))

ChaseKeys == {"Cash value", "Sapphire Preferred portal",
              "Sapphire Reserve portal", "Target partner exchange"}

\* every scenario paid at the cash rate
redeem_chase_points_cash_only(points) ==
    Dict([k \in ChaseKeys |-> redeem_points(points, RI(1)).val])

redeem_chase_points(points) ==
    Dict(("Cash value" :> redeem_points(points, RI(1)).val) @@
         ("Sapphire Preferred portal" :> redeem_points(points, RQ(125, 100)).val) @@
         ("Sapphire Reserve portal" :> redeem_points(points, RQ(15, 10)).val) @@
         ("Target partner exchange" :> redeem_points(points, RI(2)).val))

\* 72 where the source has 69.3, and 69.3 where it has 72
rule_of_72_constants_swapped(interest_rate, accurate) ==
    IF RIsZero(interest_rate) THEN PosInf
    ELSE IF accurate THEN Num(RDiv(RI(72), interest_rate))
    ELSE Num(RDiv(RQ(693, 10), interest_rate))

rule_of_72(interest_rate, accurate) ==
    IF RIsZero(interest_rate) THEN PosInf
    ELSE IF accurate THEN Num(RDiv(RQ(693, 10), interest_rate))
    ELSE Num(RDiv(RI(72), interest_rate))

\* accurate defaults to True when the call gives the rate alone
call_rule_of_72(a) ==
    rule_of_72(RI(a[1]), IF Len(a) = 1 THEN TRUE ELSE a[2])

savings_rate(take_home_pay_, spending) ==
    ExceptZeroDivision(
        Bind(DecDiv(RSub(take_home_pay_, spending), take_home_pay_),
             LAMBDA x : Num(RMul(x, RI(100)))),
        Num(RI(0)))

stock_returns(dividend_yield, earnings_growth, change_in_pe) ==
    Num(RAdd(RAdd(dividend_yield, earnings_growth), change_in_pe))

future_value(present_value, annual_rate, periods_per_year, years) ==
    Bind(DecDiv(RDiv(annual_rate, RI(100)), periods_per_year),
         LAMBDA rate_per_period :
            LET periods == RMul(periods_per_year, years)
            IN  Num(RMul(present_value,
                         RPow(RAdd(RI(1), rate_per_period), RInt(periods)))))

\* the costs added to the return instead of taken from it
cost_of_costs_costs_added(money_invested, interest_rate, investment_costs, time_period) ==
    LET real_rate == RAdd(interest_rate, investment_costs)
    IN  Bind(future_value(money_invested, interest_rate, RI(1), time_period),
             LAMBDA gross :
                Bind(future_value(money_invested, real_rate, RI(1), time_period),
                     LAMBDA net : Num(RSub(gross, net))))

cost_of_costs(money_invested, interest_rate, investment_costs, time_period) ==
    LET real_rate == RSub(interest_rate, investment_costs)
    IN  Bind(future_value(money_invested, interest_rate, RI(1), time_period),
             LAMBDA gross :
                Bind(future_value(money_invested, real_rate, RI(1), time_period),
                     LAMBDA net : Num(RSub(gross, net))))

\* a call future_value(*a): Python binds at most the four declared parameters
call_future_value(a) ==
    IF Len(a) # 4
    THEN Raise("TypeError")
    ELSE future_value(RI(a[1]), RI(a[2]), RI(a[3]), RI(a[4]))

-----------------------------------------------------------------------------
(* numpy_financial.nper, the number of periods of an annuity.  Its result  *)
(* is a float; the logarithm of a rational is known here by its floor and  *)
(* by whether it is an integer, which is what int() needs.                 *)

Real(fl, ex) == [kind |-> "real", floor |-> fl, exact |-> ex]

\* the least k among 1, 2, 4, ... with x < q^k, for q > 1
RECURSIVE LogUpper(_, _, _)
LogUpper(x, q, k) == IF RLt(x, RPow(q, k)) THEN k ELSE LogUpper(x, q, 2 * k)

\* the k with q^k <= x < q^(k+1), given q^lo <= x < q^hi
RECURSIVE LogBisect(_, _, _, _)
LogBisect(x, q, lo, hi) ==
    IF hi = lo + 1
    THEN lo
    ELSE LET mid == (lo + hi) \div 2
         IN  IF RLe(RPow(q, mid), x)
             THEN LogBisect(x, q, mid, hi)
             ELSE LogBisect(x, q, lo, mid)

\* log(x) / log(q) for x >= 1 and q > 1
LogGe1(x, q) ==
    LET k == LogBisect(x, q, 0, LogUpper(x, q, 1))
    IN  Real(k, REq(RPow(q, k), x))

\* log(x) / log(q) for x > 0 and q > 1
LogBase(x, q) ==
    IF RLe(RI(1), x)
    THEN LogGe1(x, q)
    ELSE LET l == LogGe1(RDiv(RI(1), x), q)
         IN  Real(IF l.exact THEN -l.floor ELSE -l.floor - 1, l.exact)

\* x / y on numpy floats with division warnings ignored
NpDiv(x, y) ==
    IF ~RIsZero(y)
    THEN LET v == RDiv(x, y)
             t == RTrunc(v)
             e == REq(t, v)
         IN  Real(IF v.neg /\ ~e THEN RInt(t) - 1 ELSE RInt(t), e)
    ELSE IF RIsZero(x) THEN [kind |-> "nan"]
    ELSE IF x.neg THEN [kind |-> "-inf"]
    ELSE [kind |-> "inf"]

\* nper(rate, pmt, pv, fv) with payments at the end of a period, rate > -1
nper(rate, pmt, pv, fv) ==
    IF RIsZero(rate)
    THEN NpDiv(RNeg(RAdd(fv, pv)), pmt)
    ELSE LET z   == RDiv(pmt, rate)
             num == RAdd(RNeg(fv), z)
             den == RAdd(pv, z)
             q   == RAdd(RI(1), rate)
         IN  IF RIsZero(den)
             THEN (IF RIsZero(num) \/ num.neg THEN [kind |-> "nan"]
                   ELSE [kind |-> IF rate.neg THEN "-inf" ELSE "inf"])
             ELSE IF RIsZero(num)
             THEN [kind |-> IF rate.neg THEN "inf" ELSE "-inf"]
             ELSE IF num.neg # den.neg
             THEN [kind |-> "nan"]
             ELSE IF rate.neg
             THEN LogBase(RDiv(den, num), RDiv(RI(1), q))
             ELSE LogBase(RDiv(num, den), q)

\* the target handed to nper as it comes, without the change of sign
fi_age_target_not_negated(expected_inflation_adjusted_return, annual_savings_amount, stash, fi_number_, current_age) ==
    LET fi_num == fi_number_
        n      == nper(RDiv(expected_inflation_adjusted_return, RI(100)),
                       annual_savings_amount, stash, fi_num)
        sum    == n.floor + current_age
    IN  IF n.kind = "nan" THEN Raise("ValueError")
        ELSE IF n.kind \in {"inf", "-inf"} THEN Raise("OverflowError")
        ELSE Num(RI(IF sum >= 0 \/ n.exact THEN sum ELSE sum + 1))

fi_age(expected_inflation_adjusted_return, annual_savings_amount, stash, fi_number_, current_age) ==
    LET fi_num == RMul(fi_number_, RI(-1))
        n      == nper(RDiv(expected_inflation_adjusted_return, RI(100)),
                       annual_savings_amount, stash, fi_num)
        sum    == n.floor + current_age
    IN  IF n.kind = "nan" THEN Raise("ValueError")
        ELSE IF n.kind \in {"inf", "-inf"} THEN Raise("OverflowError")
        ELSE Num(RI(IF sum >= 0 \/ n.exact THEN sum ELSE sum + 1))

-----------------------------------------------------------------------------
(* The capitalization rate of a property.  The repository's tests call     *)
(* cap_rate but src/fi/fi.py does not define it; it is taken as the        *)
(* specification's real-estate ratio with its zero sentinel.               *)

\* the ratio left as a fraction
cap_rate_as_fraction(net_operating_income, property_value) ==
    IF RIsZero(property_value) THEN Num(RI(0))
    ELSE Num(RDiv(net_operating_income, property_value))

cap_rate(net_operating_income, property_value) ==
    IF RIsZero(property_value) THEN Num(RI(0))
    ELSE Num(RMul(RDiv(net_operating_income, property_value), RI(100)))

-----------------------------------------------------------------------------
(* The amortization functions, as section 4 of the specification gives     *)
(* them: the repository's tests call them but src/fi/fi.py does not        *)
(* define them.                                                            *)

\* the rate taken as a fraction instead of a percentage
monthly_payment_rate_as_fraction(principal, annual_rate, years) ==
    LET num_payments == RMul(years, RI(12))
        monthly_rate == RDiv(annual_rate, RI(12))
        growth       == RPow(RAdd(RI(1), monthly_rate), RInt(num_payments))
    IN  IF RIsZero(monthly_rate) THEN DecDiv(principal, num_payments)
        ELSE DecDiv(RMul(principal, RMul(monthly_rate, growth)),
                    RSub(growth, RI(1)))

\* the closed form used at every rate, the zero rate included
monthly_payment_closed_form_only(principal, annual_rate, years) ==
    LET num_payments == RMul(years, RI(12))
        monthly_rate == RDiv(RDiv(annual_rate, RI(100)), RI(12))
        growth       == RPow(RAdd(RI(1), monthly_rate), RInt(num_payments))
    IN  DecDiv(RMul(principal, RMul(monthly_rate, growth)), RSub(growth, RI(1)))

monthly_payment(principal, annual_rate, years) ==
    LET num_payments == RMul(years, RI(12))
        monthly_rate == RDiv(RDiv(annual_rate, RI(100)), RI(12))
        growth       == RPow(RAdd(RI(1), monthly_rate), RInt(num_payments))
    IN  IF RIsZero(monthly_rate)
        THEN DecDiv(principal, num_payments)
        ELSE DecDiv(RMul(principal, RMul(monthly_rate, growth)),
                    RSub(growth, RI(1)))

\* one payment counted per year instead of twelve
total_interest_yearly_payments(principal, annual_rate, years) ==
    Bind(monthly_payment(principal, annual_rate, years),
         LAMBDA payment : Num(RSub(RMul(payment, years), principal)))

total_interest(principal, annual_rate, years) ==
    Bind(monthly_payment(principal, annual_rate, years),
         LAMBDA payment :
            Num(RSub(RMul(payment, RMul(years, RI(12))), principal)))

-----------------------------------------------------------------------------
(* The life table.  data/Table01.xlsx is not part of the sources at hand:  *)
(* the table is taken as the specification describes it, one row for each  *)
(* year of age from 0 and a last row for 100 and over, with the            *)
(* expectancies the tests name (40.7 at 40, 36.1 at 45, 23.2 at 60 and     *)
(* 19.3 at 65) and stand-ins for the others.                               *)

\* the cells of the column 'Age (years)': "0–1", "1–2", ..., "100 and over"
Band(a, b)  == [text |-> "range",    parts |-> <<a, b>>]
AndOver(a)  == [text |-> "and over", parts |-> <<a>>]

\* expectation of life at age x, in tenths of a year
Expectation(x) ==
    CASE x = 40 -> 407
      [] x = 45 -> 361
      [] x = 60 -> 232
      [] x = 65 -> 193
      [] OTHER  -> IF x < 100 THEN 788 - (15 * x) \div 2 ELSE 23

Table01 ==
    [i \in 1..101 |->
        [age         |-> IF i <= 100 THEN Band(i - 1, i) ELSE AndOver(100),
         expectation |-> RQ(Expectation(i - 1), 10)]]

\* str.split('–', expand=True) and pd.to_numeric(errors='coerce') of a cell:
\* a text that is no number becomes NaN, and so does the missing second part
ToNumeric(cell) ==
    IF cell.text = "range"
    THEN <<Num(RI(cell.parts[1])), Num(RI(cell.parts[2]))>>
    ELSE <<NaN, NaN>>

\* the last row read as it stands
age_ranges_last_row_as_read(table) ==
    [i \in 1..Len(table) |-> ToNumeric(table[i].age)]

\* the last row is set to the range from 100 to infinity
age_ranges(table) ==
    [i \in 1..Len(table) |->
        IF i = Len(table) THEN <<Num(RI(100)), PosInf>>
        ELSE ToNumeric(table[i].age)]

\* (age_ranges[0] <= your_age) & (your_age < age_ranges[1]) on one row;
\* a comparison with NaN is False
InRange(range, your_age) ==
    /\ range[1].kind = "num" /\ RLe(range[1].val, RI(your_age))
    /\ \/ range[2].kind = "inf"
       \/ range[2].kind = "num" /\ RLt(RI(your_age), range[2].val)

\* the rows the mask selects
Masked(table, your_age) ==
    {i \in 1..Len(table) : InRange(age_ranges(table)[i], your_age)}

\* round(Decimal(x), 1) of a float x
RoundTenths(x) == RDiv(RRoundHalfEven(RMul(Float(x), RI(10))), RI(10))

\* Decimal(365.2425): the float nearest to 365.2425, converted exactly
YearLen(more_accurate) ==
    IF more_accurate THEN Float(RQ(3652425, 10000)) ELSE RI(365)

remaining_life_expectancy(table, your_age, time_unit, more_accurate, exclude_time_asleep) ==
    LET mask     == Masked(table, your_age)
        first    == CHOOSE i \in mask : \A j \in mask : i <= j
        rounded  == RoundTenths(table[first].expectation)
        years    == IF exclude_time_asleep THEN DecRound(RDiv(rounded, RI(2)))
                    ELSE rounded
        days     == DecRound(RMul(years, YearLen(more_accurate)))
    IN  IF mask = {} THEN Raise("IndexError")
        ELSE IF time_unit = "years" THEN Num(years)
        ELSE IF time_unit = "months" THEN Num(DecRound(RMul(years, RI(12))))
        ELSE IF time_unit = "days" THEN Num(days)
        ELSE Num(DecRound(RMul(days, RI(24))))

-----------------------------------------------------------------------------
(* The command-line front end (src/fi_commands.py): one console command    *)
(* per function.  A command line is a sequence of tokens: a numeric string *)
(* (here of a whole number), a word that is no number, or an option.       *)

Str(i)    == [text |-> "number", value |-> i]
Word      == [text |-> "abc",    value |-> 0]
Opt(name) == [text |-> name,     value |-> 0]

IsOption(t) == t.text \in {"-a", "-r", "-x"}

\* float(s), int(s) and Decimal(s) of a command-line string
PyFloat(t)   == IF t.text = "number" THEN Num(RI(t.value)) ELSE Raise("ValueError")
PyInt(t)     == IF t.text = "number" THEN Num(RI(t.value)) ELSE Raise("ValueError")
PyDecimal(t) == IF t.text = "number" THEN Num(RI(t.value)) ELSE Raise("InvalidOperation")

\* argparse: positionals are taken in order and options where they stand;
\* an option that is not declared, or a valued option without its value,
\* is an error.  rate is <<>> (None) or holds the string given with -r.
RECURSIVE ParseFrom(_, _, _, _, _)
ParseFrom(argv, i, parsed, flags, valued) ==
    IF i > Len(argv) \/ ~parsed.ok THEN parsed
    ELSE LET t == argv[i]
         IN  IF t.text \in flags
             THEN ParseFrom(argv, i + 1, [parsed EXCEPT !.accurate = TRUE],
                            flags, valued)
             ELSE IF t.text \in valued
             THEN IF i < Len(argv) /\ ~IsOption(argv[i + 1])
                  THEN ParseFrom(argv, i + 2,
                                 [parsed EXCEPT !.rate = <<argv[i + 1]>>],
                                 flags, valued)
                  ELSE [parsed EXCEPT !.ok = FALSE]
             ELSE IF IsOption(t)
             THEN [parsed EXCEPT !.ok = FALSE]
             ELSE ParseFrom(argv, i + 1, [parsed EXCEPT !.pos = Append(@, t)],
                            flags, valued)

\* parser.parse_args() of a parser with npos positional arguments
parse_args(argv, npos, flags, valued) ==
    LET parsed == ParseFrom(argv, 1,
                            [ok |-> TRUE, pos |-> <<>>, accurate |-> FALSE,
                             rate |-> <<>>],
                            flags, valued)
    IN  [parsed EXCEPT !.ok = @ /\ Len(parsed.pos) = npos]

\* what a finished process leaves: the value its library call produced, the
\* lines on standard output, what went to standard error, the exit status
Line(label, v) == [label |-> label, value |-> v]

\* argparse's error(): usage on standard error, exit status 2
UsageError ==
    [result |-> NoValue, stdout |-> <<>>, stderr |-> "usage", status |-> 2]

\* an exception nobody catches: traceback on standard error, exit status 1
Crashed(v) ==
    [result |-> v, stdout |-> <<>>, stderr |-> "traceback", status |-> 1]

\* print(v) and a normal return
Printed(v) ==
    [result |-> v, stdout |-> <<Line("", v)>>, stderr |-> "", status |-> 0]

\* print(f(...)): the call raises or its value is printed
Finish(v) == IF Raises(v) THEN Crashed(v) ELSE Printed(v)

\* the conversions of a call's arguments, evaluated left to right
Converted(c) == \A i \in 1..Len(c) : ~Raises(c[i])

FirstRaise(c) ==
    c[CHOOSE i \in 1..Len(c) :
          Raises(c[i]) /\ \A j \in 1..(i - 1) : ~Raises(c[j])]

Floats(pos)   == [i \in 1..Len(pos) |-> PyFloat(pos[i])]
Decimals(pos) == [i \in 1..Len(pos) |-> PyDecimal(pos[i])]

\* d[k] on the dict d
Lookup(d, k) == IF k \in DOMAIN d.val THEN Num(d.val[k]) ELSE Raise("KeyError")

\* the strings reach Decimal() inside the library function
run_annual_cost(argv) ==
    LET p == parse_args(argv, 3, {}, {})
        c == Decimals(p.pos)
    IN  IF ~p.ok THEN UsageError
        ELSE IF ~Converted(c) THEN Crashed(FirstRaise(c))
        ELSE Finish(annual_cost(c[1].val, c[2].val, c[3].val))

\* Decimal(money_spent) / int(num_days)
run_average_daily_spend(argv) ==
    LET p == parse_args(argv, 2, {}, {})
        c == <<PyDecimal(p.pos[1]), PyInt(p.pos[2])>>
    IN  IF ~p.ok THEN UsageError
        ELSE IF ~Converted(c) THEN Crashed(FirstRaise(c))
        ELSE Finish(DecDiv(c[1].val, c[2].val))

run_buy_a_day_of_freedom(argv) ==
    LET p == parse_args(argv, 1, {}, {"-r"})
        annual_spend == PyFloat(p.pos[1])
        rate == PyFloat(p.rate[1])
    IN  IF ~p.ok THEN UsageError
        ELSE IF Raises(annual_spend) THEN Crashed(annual_spend)
        ELSE IF p.rate # <<>>
        THEN IF Raises(rate) THEN Crashed(rate)
             ELSE Finish(buy_a_day_of_freedom(annual_spend.val, rate.val))
        ELSE Finish(buy_a_day_of_freedom(annual_spend.val, RI(4)))

run_coast_fi(argv) ==
    LET p == parse_args(argv, 4, {}, {})
        c == Decimals(p.pos)
    IN  IF ~p.ok THEN UsageError
        ELSE IF ~Converted(c) THEN Crashed(FirstRaise(c))
        ELSE Finish(coast_fi(c[1].val, c[2].val, c[3].val, c[4].val))

run_cost_per_use(argv) ==
    LET p == parse_args(argv, 3, {}, {})
        c == Decimals(p.pos)
    IN  IF ~p.ok THEN UsageError
        ELSE IF ~Converted(c) THEN Crashed(FirstRaise(c))
        ELSE Finish(cost_per_use(c[1].val, c[2].val, c[3].val))

run_days_covered_by_fi(argv) ==
    LET p == parse_args(argv, 2, {}, {"-r"})
        c == Floats(p.pos)
        rate == PyFloat(p.rate[1])
    IN  IF ~p.ok THEN UsageError
        ELSE IF ~Converted(c) THEN Crashed(FirstRaise(c))
        ELSE IF p.rate # <<>>
        THEN IF Raises(rate) THEN Crashed(rate)
             ELSE Finish(days_covered_by_fi(c[1].val, c[2].val, rate.val))
        ELSE Finish(days_covered_by_fi(c[1].val, c[2].val, RI(4)))

run_fi_age(argv) ==
    LET p == parse_args(argv, 5, {}, {})
        c == Floats(p.pos)
    IN  IF ~p.ok THEN UsageError
        ELSE IF ~Converted(c) THEN Crashed(FirstRaise(c))
        ELSE Finish(fi_age(c[1].val, c[2].val, c[3].val, c[4].val, RInt(c[5].val)))

run_fi_number(argv) ==
    LET p == parse_args(argv, 2, {}, {})
        c == Floats(p.pos)
    IN  IF ~p.ok THEN UsageError
        ELSE IF ~Converted(c) THEN Crashed(FirstRaise(c))
        ELSE Finish(fi_number(c[1].val, c[2].val))

\* the strings are passed on as they are, and future_value begins with
\* annual_rate / 100: a str divided by an int
run_future_value(argv) ==
    LET p == parse_args(argv, 4, {}, {})
    IN  IF ~p.ok THEN UsageError
        ELSE Crashed(Raise("TypeError"))

\* i and r keep their defaults, False and False
run_get_percentage(argv) ==
    LET p == parse_args(argv, 2, {}, {})
        c == Floats(p.pos)
    IN  IF ~p.ok THEN UsageError
        ELSE IF ~Converted(c) THEN Crashed(FirstRaise(c))
        ELSE Finish(get_percentage(c[1].val, c[2].val, FALSE, FALSE).ret)

run_hours_of_life_energy(argv) ==
    LET p == parse_args(argv, 2, {}, {})
        c == Floats(p.pos)
    IN  IF ~p.ok THEN UsageError
        ELSE IF ~Converted(c) THEN Crashed(FirstRaise(c))
        ELSE Finish(hours_of_life_energy(c[1].val, c[2].val))

run_percent_decrease(argv) ==
    LET p == parse_args(argv, 2, {}, {})
        c == Floats(p.pos)
    IN  IF ~p.ok THEN UsageError
        ELSE IF ~Converted(c) THEN Crashed(FirstRaise(c))
        ELSE Finish(percent_decrease(c[1].val, c[2].val))

run_percent_increase(argv) ==
    LET p == parse_args(argv, 2, {}, {})
        c == Floats(p.pos)
    IN  IF ~p.ok THEN UsageError
        ELSE IF ~Converted(c) THEN Crashed(FirstRaise(c))
        ELSE Finish(percent_increase(c[1].val, c[2].val))

run_pot_score(argv) ==
    LET p == parse_args(argv, 3, {}, {})
        c == Floats(p.pos)
    IN  IF ~p.ok THEN UsageError
        ELSE IF ~Converted(c) THEN Crashed(FirstRaise(c))
        ELSE Finish(pot_score(c[1].val, c[2].val, c[3].val))

run_real_hourly_wage(argv) ==
    LET p == parse_args(argv, 5, {}, {})
        c == Floats(p.pos)
    IN  IF ~p.ok THEN UsageError
        ELSE IF ~Converted(c) THEN Crashed(FirstRaise(c))
        ELSE Finish(real_hourly_wage(c[1].val, c[2].val, c[3].val, c[4].val, c[5].val))

\* the four lines of the report, the empty line and the three of the footnote
ChaseReport(cv, spp, srp, tpe) ==
    << Line("Cash Value", cv), Line("Sapphire Preferred Portal", spp),
       Line("Sapphire Reserved Portal", srp), Line("Target Partner Exchange", tpe),
       Line("", NoValue),
       Line("footnote", NoValue), Line("footnote", NoValue), Line("footnote", NoValue) >>

run_redeem_chase_points(argv) ==
    LET p == parse_args(argv, 1, {}, {})
        points == PyFloat(p.pos[1])
        cp == redeem_chase_points(points.val)
        c == <<Lookup(cp, "cv"), Lookup(cp, "spp"), Lookup(cp, "srp"), Lookup(cp, "tpe")>>
    IN  IF ~p.ok THEN UsageError
        ELSE IF Raises(points) THEN Crashed(points)
        ELSE IF ~Converted(c) THEN Crashed(FirstRaise(c))
        ELSE [result |-> cp, stdout |-> ChaseReport(c[1], c[2], c[3], c[4]),
              stderr |-> "", status |-> 0]

run_redeem_points(argv) ==
    LET p == parse_args(argv, 1, {}, {"-r"})
        points == PyFloat(p.pos[1])
        rate == PyFloat(p.rate[1])
    IN  IF ~p.ok THEN UsageError
        ELSE IF p.rate # <<>>
        THEN IF Raises(points) THEN Crashed(points)
             ELSE IF Raises(rate) THEN Crashed(rate)
             ELSE Finish(redeem_points(points.val, rate.val))
        ELSE IF Raises(points) THEN Crashed(points)
        ELSE Finish(redeem_points(points.val, RI(1)))

\* without -a the call leaves accurate to its default, which is True
run_rule_of_72(argv) ==
    LET p == parse_args(argv, 1, {"-a"}, {})
        interest_rate == PyFloat(p.pos[1])
    IN  IF ~p.ok THEN UsageError
        ELSE IF Raises(interest_rate) THEN Crashed(interest_rate)
        ELSE IF p.accurate THEN Finish(rule_of_72(interest_rate.val, TRUE))
        ELSE Finish(rule_of_72(interest_rate.val, TRUE))

run_savings_rate(argv) ==
    LET p == parse_args(argv, 2, {}, {})
        c == Decimals(p.pos)
    IN  IF ~p.ok THEN UsageError
        ELSE IF ~Converted(c) THEN Crashed(FirstRaise(c))
        ELSE Finish(savings_rate(c[1].val, c[2].val))

run_stock_returns(argv) ==
    LET p == parse_args(argv, 3, {}, {})
        c == Decimals(p.pos)
    IN  IF ~p.ok THEN UsageError
        ELSE IF ~Converted(c) THEN Crashed(FirstRaise(c))
        ELSE Finish(stock_returns(c[1].val, c[2].val, c[3].val))

-----------------------------------------------------------------------------
(* The state machine.  The library keeps no state of its own: a call takes *)
(* the machine from "ready" to "done" with the function, its arguments and *)
(* the outcome on record, and Return hands the outcome to the caller.      *)

MaxRate   == 8
MaxYears  == 2
MaxAmount == 3
MaxPoints == 11

Rates    == 0..MaxRate
Years    == 1..MaxYears
Amounts  == 0..MaxAmount
Divisors == 0..MaxYears

Principals == {100, 12000, 200000}
Stashes    == {0, 100000, 400000, 800000}
Targets    == {400000, 800000, 1000000}
Savings    == {0, 20000}
Ages       == {0, 20}

\* the calls the repository's tests make, beyond the ranges above
LoanExamples == {<<200000, 6, 30>>, <<150000, 4, 15>>, <<12000, 0, 5>>}

DrawdownExamples ==
    {<<2, 50, 1, 1, 0>>, <<2, 50, 1, 2, 0>>, <<100000, 7, 1, 5, 10000>>,
     <<50000, 5, 1, 10, 20000>>, <<100000, 10, 1, 3, 11000>>}

Init ==
    /\ pc = "ready"
    /\ fn = "none"
    /\ args = <<>>
    /\ result = NoValue
    /\ warned = FALSE
    /\ stdout = <<>>
    /\ stderr = ""
    /\ status = 0
    /\ registry = FALSE
    /\ life_table = <<>>

\* the call of f with arguments a ends with v, having warned (w) or not.
\* warnings.warn shows a warning once for the place it comes from: the first
\* is written to standard error and recorded in the module's warning
\* registry, the later ones are dropped.
Outcome(f, a, v, w) ==
    /\ pc' = "done"
    /\ fn' = f
    /\ args' = a
    /\ result' = v
    /\ warned' = w
    /\ stderr' = IF w /\ ~registry THEN "UserWarning" ELSE ""
    /\ registry' = (registry \/ w)
    /\ life_table' = <<>>
    /\ UNCHANGED <<stdout, status>>

Return ==
    /\ pc \in {"done", "exited"}
    /\ pc' = "ready"
    /\ fn' = "none"
    /\ args' = <<>>
    /\ result' = NoValue
    /\ warned' = FALSE
    /\ stdout' = <<>>
    /\ stderr' = ""
    /\ status' = 0
    /\ life_table' = <<>>
    /\ UNCHANGED registry

monthly_payment_inputs ==
    (Principals \X Rates \X Years) \cup LoanExamples

Call_monthly_payment(a, v) ==
    /\ pc = "ready"
    /\ Outcome("monthly_payment", a, v, FALSE)

total_interest_inputs ==
    (Principals \X Rates \X Years) \cup LoanExamples

Call_total_interest(a, v) ==
    /\ pc = "ready"
    /\ Outcome("total_interest", a, v, FALSE)

future_value_inputs ==
    ({2, 100, 10000} \X {0, 5, 7, 50} \X (1..MaxYears) \X (0..MaxYears)) \cup DrawdownExamples

Call_future_value(a, v) ==
    /\ pc = "ready"
    /\ Outcome("future_value", a, v, FALSE)

fi_age_inputs ==
    Rates \X Savings \X Stashes \X Targets \X Ages

Call_fi_age(a, v) ==
    /\ pc = "ready"
    /\ Outcome("fi_age", a, v, FALSE)

annual_cost_inputs ==
    (Amounts \X Amounts \X Divisors) \cup {<<75, 15, 15>>, <<300, 100, 3>>}

Call_annual_cost(a, v) ==
    /\ pc = "ready"
    /\ Outcome("annual_cost", a, v, FALSE)

coast_fi_inputs ==
    {0, 800000, 2000000} \X Rates \X {31, 40, 62} \X {31, 40, 62}

Call_coast_fi(a, v) ==
    /\ pc = "ready"
    /\ Outcome("coast_fi", a, v, FALSE)

cost_per_use_inputs ==
    (Amounts \X Amounts \X Divisors) \cup {<<75, 15, 15>>}

Call_cost_per_use(a, v) ==
    /\ pc = "ready"
    /\ Outcome("cost_per_use", a, v, FALSE)

average_daily_spend_inputs ==
    {0, 100, 2100} \X {0, 10, 30}

Call_average_daily_spend(a, v) ==
    /\ pc = "ready"
    /\ Outcome("average_daily_spend", a, v, FALSE)

buy_a_day_of_freedom_inputs ==
    {0, 12000, 36500} \X Rates

Call_buy_a_day_of_freedom(a, v) ==
    /\ pc = "ready"
    /\ Outcome("buy_a_day_of_freedom", a, v, FALSE)

\* with the stashes that are the FI number of the spending at the rate
days_covered_by_fi_inputs ==
    ({0, 30000, 40000} \X {0, 500000, 750000} \X Rates)
        \cup {<<12000, 300000, 4>>, <<40000, 1000000, 4>>, <<24000, 800000, 3>>}

Call_days_covered_by_fi(a, v) ==
    /\ pc = "ready"
    /\ Outcome("days_covered_by_fi", a, v, FALSE)

fi_number_inputs ==
    {0, 12000, 24000, 40000} \X Rates

Call_fi_number(a, v) ==
    /\ pc = "ready"
    /\ Outcome("fi_number", a, v, FALSE)

get_percentage_inputs ==
    Amounts \X Amounts \X BOOLEAN \X BOOLEAN

\* out: the value returned and whether the warning was issued
Call_get_percentage(a, out) ==
    /\ pc = "ready"
    /\ Outcome("get_percentage", a, out.ret, out.warned)

hours_of_life_energy_inputs ==
    {0, 20, 80} \X {0, 10}

Call_hours_of_life_energy(a, v) ==
    /\ pc = "ready"
    /\ Outcome("hours_of_life_energy", a, v, FALSE)

percent_decrease_inputs ==
    {-10, -5, 0, 2, 5, 10} \X {-10, -5, 0, 2, 5, 8}

Call_percent_decrease(a, v) ==
    /\ pc = "ready"
    /\ Outcome("percent_decrease", a, v, FALSE)

percent_increase_inputs ==
    {-10, -5, 0, 2, 5, 10} \X {-10, -5, 0, 2, 10, 12}

Call_percent_increase(a, v) ==
    /\ pc = "ready"
    /\ Outcome("percent_increase", a, v, FALSE)

pot_score_inputs ==
    {0, 22880, 27000, 72330} \X {0, 11} \X {0, 42600}

Call_pot_score(a, v) ==
    /\ pc = "ready"
    /\ Outcome("pot_score", a, v, FALSE)

real_hourly_wage_inputs ==
    {0, 40} \X {0, 1000} \X {0} \X {0, 30} \X {0, 300}

Call_real_hourly_wage(a, v) ==
    /\ pc = "ready"
    /\ Outcome("real_hourly_wage", a, v, FALSE)

Points == (-MaxAmount..MaxPoints) \cup {50, 333, 50000}

\* the rate is written in hundredths of a percent: 125 for 1.25
redeem_points_inputs ==
    (Points \X {100, 125, 150, 200}) \cup {<<points>> : points \in Points}

Call_redeem_points(a, v) ==
    /\ pc = "ready"
    /\ Outcome("redeem_points", a, v, FALSE)

redeem_chase_points_inputs ==
    {<<points>> : points \in Points}

Call_redeem_chase_points(a, v) ==
    /\ pc = "ready"
    /\ Outcome("redeem_chase_points", a, v, FALSE)

rule_of_72_inputs ==
    (Rates \X BOOLEAN) \cup {<<rate>> : rate \in Rates}

Call_rule_of_72(a, v) ==
    /\ pc = "ready"
    /\ Outcome("rule_of_72", a, v, FALSE)

savings_rate_inputs ==
    {0, 600, 13839} \X {0, 300, 8919}

Call_savings_rate(a, v) ==
    /\ pc = "ready"
    /\ Outcome("savings_rate", a, v, FALSE)

-----------------------------------------------------------------------------
(* The commands.  A process starts with its command line, runs the whole   *)
(* of its run_ function and exits.                                         *)

\* the command cmd, started with argv, exits with the outcome o
Exit(cmd, argv, o) ==
    /\ pc' = "exited"
    /\ fn' = cmd
    /\ args' = argv
    /\ result' = o.result
    /\ warned' = FALSE
    /\ stdout' = o.stdout
    /\ stderr' = o.stderr
    /\ status' = o.status
    /\ UNCHANGED <<registry, life_table>>

\* the numeric strings of a command line
Strs(a) == [i \in 1..Len(a) |-> Str(a[i])]

\* a command line, and what becomes of it with a word in the place of one
\* token, without its last token, with one token more, with an option the
\* command does not declare
Variants(line) ==
    {line, SubSeq(line, 1, Len(line) - 1), Append(line, Str(1)),
     Append(line, Opt("-x"))}
        \cup {[line EXCEPT ![i] = Word] : i \in 1..Len(line)}

\* the command line with -a before or behind its arguments
WithFlag(line, name) == {<<Opt(name)>> \o line, Append(line, Opt(name))}

\* the command line with a valued option behind its arguments
WithOption(line, name, values) == {line \o <<Opt(name), Str(v)>> : v \in values}

run_annual_cost_lines ==
    UNION {Variants(line) : line \in {Strs(<<75, 15, 15>>), Strs(<<300, 100, 0>>)}}

Run_annual_cost(argv, o) ==
    /\ pc = "ready"
    /\ Exit("run_annual_cost", argv, o)

run_average_daily_spend_lines ==
    UNION {Variants(line) : line \in {Strs(<<2100, 30>>), Strs(<<100, 0>>)}}

Run_average_daily_spend(argv, o) ==
    /\ pc = "ready"
    /\ Exit("run_average_daily_spend", argv, o)

run_buy_a_day_of_freedom_lines ==
    LET Plain == {Strs(<<36500>>), Strs(<<0>>)}
        Lines == Plain \cup UNION {WithOption(line, "-r", {4, 0}) : line \in Plain}
    IN  UNION {Variants(line) : line \in Lines}

Run_buy_a_day_of_freedom(argv, o) ==
    /\ pc = "ready"
    /\ Exit("run_buy_a_day_of_freedom", argv, o)

run_coast_fi_lines ==
    UNION {Variants(line) : line \in {Strs(<<800000, 7, 62, 40>>), Strs(<<2000000, 0, 62, 31>>)}}

Run_coast_fi(argv, o) ==
    /\ pc = "ready"
    /\ Exit("run_coast_fi", argv, o)

run_cost_per_use_lines ==
    UNION {Variants(line) : line \in {Strs(<<75, 15, 15>>), Strs(<<75, 15, 0>>)}}

Run_cost_per_use(argv, o) ==
    /\ pc = "ready"
    /\ Exit("run_cost_per_use", argv, o)

run_days_covered_by_fi_lines ==
    LET Plain == {Strs(<<40000, 500000>>), Strs(<<0, 500000>>)}
        Lines == Plain \cup UNION {WithOption(line, "-r", {3}) : line \in Plain}
    IN  UNION {Variants(line) : line \in Lines}

Run_days_covered_by_fi(argv, o) ==
    /\ pc = "ready"
    /\ Exit("run_days_covered_by_fi", argv, o)

run_fi_age_lines ==
    UNION {Variants(line) : line \in {Strs(<<8, 20000, 100000, 800000, 20>>), Strs(<<0, 0, 400000, 800000, 20>>)}}

Run_fi_age(argv, o) ==
    /\ pc = "ready"
    /\ Exit("run_fi_age", argv, o)

run_fi_number_lines ==
    UNION {Variants(line) : line \in {Strs(<<40000, 4>>), Strs(<<40000, 0>>)}}

Run_fi_number(argv, o) ==
    /\ pc = "ready"
    /\ Exit("run_fi_number", argv, o)

run_future_value_lines ==
    UNION {Variants(line) : line \in {Strs(<<800000, 3, 1, 20>>), Strs(<<50000, 5, 1, 10>>)}}

Run_future_value(argv, o) ==
    /\ pc = "ready"
    /\ Exit("run_future_value", argv, o)

run_get_percentage_lines ==
    UNION {Variants(line) : line \in {Strs(<<1, 2>>), Strs(<<3, 0>>)}}

Run_get_percentage(argv, o) ==
    /\ pc = "ready"
    /\ Exit("run_get_percentage", argv, o)

run_hours_of_life_energy_lines ==
    UNION {Variants(line) : line \in {Strs(<<80, 10>>), Strs(<<20, 0>>)}}

Run_hours_of_life_energy(argv, o) ==
    /\ pc = "ready"
    /\ Exit("run_hours_of_life_energy", argv, o)

run_percent_decrease_lines ==
    UNION {Variants(line) : line \in {Strs(<<10, 0>>), Strs(<<0, 5>>)}}

Run_percent_decrease(argv, o) ==
    /\ pc = "ready"
    /\ Exit("run_percent_decrease", argv, o)

run_percent_increase_lines ==
    UNION {Variants(line) : line \in {Strs(<<-10, 10>>), Strs(<<0, 0>>)}}

Run_percent_increase(argv, o) ==
    /\ pc = "ready"
    /\ Exit("run_percent_increase", argv, o)

run_pot_score_lines ==
    UNION {Variants(line) : line \in {Strs(<<72330, 11, 42600>>), Strs(<<22880, 0, 0>>)}}

Run_pot_score(argv, o) ==
    /\ pc = "ready"
    /\ Exit("run_pot_score", argv, o)

run_real_hourly_wage_lines ==
    UNION {Variants(line) : line \in {Strs(<<40, 1000, 0, 30, 300>>), Strs(<<0, 1000, 0, 0, 0>>)}}

Run_real_hourly_wage(argv, o) ==
    /\ pc = "ready"
    /\ Exit("run_real_hourly_wage", argv, o)

run_redeem_chase_points_lines ==
    UNION {Variants(line) : line \in {Strs(<<50000>>), Strs(<<333>>), Strs(<<0>>)}}

Run_redeem_chase_points(argv, o) ==
    /\ pc = "ready"
    /\ Exit("run_redeem_chase_points", argv, o)

run_redeem_points_lines ==
    LET Plain == {Strs(<<50000>>), Strs(<<333>>)}
        Lines == Plain \cup UNION {WithOption(line, "-r", {2}) : line \in Plain}
    IN  UNION {Variants(line) : line \in Lines}

Run_redeem_points(argv, o) ==
    /\ pc = "ready"
    /\ Exit("run_redeem_points", argv, o)

run_rule_of_72_lines ==
    LET Plain == {Strs(<<8>>), Strs(<<3>>), Strs(<<0>>), Strs(<<-2>>)}
        Lines == Plain \cup UNION {WithFlag(line, "-a") : line \in Plain}
    IN  UNION {Variants(line) : line \in Lines}

Run_rule_of_72(argv, o) ==
    /\ pc = "ready"
    /\ Exit("run_rule_of_72", argv, o)

run_savings_rate_lines ==
    UNION {Variants(line) : line \in {Strs(<<13839, 8919>>), Strs(<<0, 0>>)}}

Run_savings_rate(argv, o) ==
    /\ pc = "ready"
    /\ Exit("run_savings_rate", argv, o)

run_stock_returns_lines ==
    UNION {Variants(line) : line \in {Strs(<<2, 5, -1>>), Strs(<<0, 0, 0>>)}}

Run_stock_returns(argv, o) ==
    /\ pc = "ready"
    /\ Exit("run_stock_returns", argv, o)

stock_returns_inputs ==
    {0, 2} \X {0, 5} \X {-1, 0, 1}

Call_stock_returns(a, v) ==
    /\ pc = "ready"
    /\ Outcome("stock_returns", a, v, FALSE)

cap_rate_inputs ==
    {0, 10000, 18000, 40000} \X {0, 200000, 300000, 500000}

Call_cap_rate(a, v) ==
    /\ pc = "ready"
    /\ Outcome("cap_rate", a, v, FALSE)

cost_of_costs_inputs ==
    {0, 2, 100, 10000} \X {-50, 0, 7, 50} \X {0, 2, 50, 200} \X (0..MaxYears)

Call_cost_of_costs(a, v) ==
    /\ pc = "ready"
    /\ Outcome("cost_of_costs", a, v, FALSE)

TimeUnits == {"hours", "days", "months", "years"}

remaining_life_expectancy_inputs ==
    {-1, 0, 1, 40, 45, 60, 65, 99, 100, 101, 120}
        \X TimeUnits \X BOOLEAN \X BOOLEAN

\* the call reads the table from the disk
Call_remaining_life_expectancy(a, table, v) ==
    /\ pc = "ready"
    /\ pc' = "done"
    /\ fn' = "remaining_life_expectancy"
    /\ args' = a
    /\ result' = v
    /\ life_table' = table
    /\ warned' = FALSE
    /\ UNCHANGED <<stdout, stderr, status, registry>>

Next ==
    \/ \E a \in monthly_payment_inputs :
           Call_monthly_payment(a,
               monthly_payment(RI(a[1]), RI(a[2]), RI(a[3])))
    \/ \E a \in total_interest_inputs :
           Call_total_interest(a, total_interest(RI(a[1]), RI(a[2]), RI(a[3])))
    \/ \E a \in future_value_inputs :
           Call_future_value(a, call_future_value(a))
    \/ \E a \in fi_age_inputs :
           Call_fi_age(a, fi_age(RI(a[1]), RI(a[2]), RI(a[3]), RI(a[4]), a[5]))
    \/ \E a \in annual_cost_inputs :
           Call_annual_cost(a, annual_cost(RI(a[1]), RI(a[2]), RI(a[3])))
    \/ \E a \in coast_fi_inputs :
           Call_coast_fi(a, coast_fi(RI(a[1]), RI(a[2]), RI(a[3]), RI(a[4])))
    \/ \E a \in cost_per_use_inputs :
           Call_cost_per_use(a, cost_per_use(RI(a[1]), RI(a[2]), RI(a[3])))
    \/ \E a \in average_daily_spend_inputs :
           Call_average_daily_spend(a, average_daily_spend(RI(a[1]), RI(a[2])))
    \/ \E a \in buy_a_day_of_freedom_inputs :
           Call_buy_a_day_of_freedom(a,
               buy_a_day_of_freedom(RI(a[1]), RI(a[2])))
    \/ \E a \in days_covered_by_fi_inputs :
           Call_days_covered_by_fi(a,
               days_covered_by_fi(RI(a[1]), RI(a[2]), RI(a[3])))
    \/ \E a \in fi_number_inputs :
           Call_fi_number(a, fi_number(RI(a[1]), RI(a[2])))
    \/ \E a \in get_percentage_inputs :
           Call_get_percentage(a,
               get_percentage(RI(a[1]), RI(a[2]), a[3], a[4]))
    \/ \E a \in hours_of_life_energy_inputs :
           Call_hours_of_life_energy(a,
               hours_of_life_energy(RI(a[1]), RI(a[2])))
    \/ \E a \in percent_decrease_inputs :
           Call_percent_decrease(a, percent_decrease(RI(a[1]), RI(a[2])))
    \/ \E a \in percent_increase_inputs :
           Call_percent_increase(a, percent_increase(RI(a[1]), RI(a[2])))
    \/ \E a \in pot_score_inputs :
           Call_pot_score(a, pot_score(RI(a[1]), RI(a[2]), RI(a[3])))
    \/ \E a \in real_hourly_wage_inputs :
           Call_real_hourly_wage(a,
               real_hourly_wage(RI(a[1]), RI(a[2]), RI(a[3]), RI(a[4]), RI(a[5])))
    \/ \E a \in redeem_points_inputs :
           Call_redeem_points(a, call_redeem_points(a))
    \/ \E a \in redeem_chase_points_inputs :
           Call_redeem_chase_points(a, redeem_chase_points(RI(a[1])))
    \/ \E a \in rule_of_72_inputs :
           Call_rule_of_72(a, call_rule_of_72(a))
    \/ \E a \in savings_rate_inputs :
           Call_savings_rate(a, savings_rate(RI(a[1]), RI(a[2])))
    \/ \E a \in stock_returns_inputs :
           Call_stock_returns(a, stock_returns(RI(a[1]), RI(a[2]), RI(a[3])))
    \/ \E argv \in run_annual_cost_lines :
           Run_annual_cost(argv, run_annual_cost(argv))
    \/ \E argv \in run_average_daily_spend_lines :
           Run_average_daily_spend(argv, run_average_daily_spend(argv))
    \/ \E argv \in run_buy_a_day_of_freedom_lines :
           Run_buy_a_day_of_freedom(argv, run_buy_a_day_of_freedom(argv))
    \/ \E argv \in run_coast_fi_lines :
           Run_coast_fi(argv, run_coast_fi(argv))
    \/ \E argv \in run_cost_per_use_lines :
           Run_cost_per_use(argv, run_cost_per_use(argv))
    \/ \E argv \in run_days_covered_by_fi_lines :
           Run_days_covered_by_fi(argv, run_days_covered_by_fi(argv))
    \/ \E argv \in run_fi_age_lines :
           Run_fi_age(argv, run_fi_age(argv))
    \/ \E argv \in run_fi_number_lines :
           Run_fi_number(argv, run_fi_number(argv))
    \/ \E argv \in run_future_value_lines :
           Run_future_value(argv, run_future_value(argv))
    \/ \E argv \in run_get_percentage_lines :
           Run_get_percentage(argv, run_get_percentage(argv))
    \/ \E argv \in run_hours_of_life_energy_lines :
           Run_hours_of_life_energy(argv, run_hours_of_life_energy(argv))
    \/ \E argv \in run_percent_decrease_lines :
           Run_percent_decrease(argv, run_percent_decrease(argv))
    \/ \E argv \in run_percent_increase_lines :
           Run_percent_increase(argv, run_percent_increase(argv))
    \/ \E argv \in run_pot_score_lines :
           Run_pot_score(argv, run_pot_score(argv))
    \/ \E argv \in run_real_hourly_wage_lines :
           Run_real_hourly_wage(argv, run_real_hourly_wage(argv))
    \/ \E argv \in run_redeem_chase_points_lines :
           Run_redeem_chase_points(argv, run_redeem_chase_points(argv))
    \/ \E argv \in run_redeem_points_lines :
           Run_redeem_points(argv, run_redeem_points(argv))
    \/ \E argv \in run_rule_of_72_lines :
           Run_rule_of_72(argv, run_rule_of_72(argv))
    \/ \E argv \in run_savings_rate_lines :
           Run_savings_rate(argv, run_savings_rate(argv))
    \/ \E argv \in run_stock_returns_lines :
           Run_stock_returns(argv, run_stock_returns(argv))
    \/ \E a \in cap_rate_inputs :
           Call_cap_rate(a, cap_rate(RI(a[1]), RI(a[2])))
    \/ \E a \in cost_of_costs_inputs :
           Call_cost_of_costs(a,
               cost_of_costs(RI(a[1]), RI(a[2]), RI(a[3]), RI(a[4])))
    \/ \E a \in remaining_life_expectancy_inputs :
           Call_remaining_life_expectancy(a, Table01,
               remaining_life_expectancy(Table01, a[1], a[2], a[3], a[4]))
    \/ Return

Spec == Init /\ [][Next]_vars

-----------------------------------------------------------------------------
(* Amortization schedule, for the claims about monthly_payment.  With a    *)
(* payment of m/d, the balance after k payments is kept as the integer     *)
(* bal = balance * d * 1200^k and the payment as due = m * 1200^k, so a    *)
(* step is exact: interest at rate/1200 is charged on the balance and the  *)
(* payment is subtracted.                                                  *)

Schedule(b, p, o) == [bal |-> b, due |-> p, over |-> o]

AmortStep(s, rate) ==
    LET due     == BMulSmall(s.due, 1200)
        charged == BMulSmall(s.bal, 1200 + rate)
    IN  IF s.over \/ (charged # due /\ BCmp(charged, due) < 0)
        THEN Schedule(<<>>, due, TRUE)
        ELSE Schedule(BSub(charged, due), due, FALSE)

RECURSIVE AmortSteps(_, _, _)
AmortSteps(s, rate, k) ==
    IF k = 0 THEN s
    ELSE LET t == AmortStep(s, rate)
         IN  IF Len(t.bal) >= 0 /\ Len(t.due) >= 0
             THEN AmortSteps(t, rate, k - 1)
             ELSE t

RECURSIVE AmortYears(_, _, _)
AmortYears(s, rate, y) ==
    IF y = 0 THEN s
    ELSE LET t == AmortSteps(s, rate, 12)
         IN  IF Len(t.bal) >= 0 /\ Len(t.due) >= 0
             THEN AmortYears(t, rate, y - 1)
             ELSE t

\* paying `payment` every month for `years` years leaves exactly nothing
AmortizesToZero(principal, rate, years, payment) ==
    LET start == Schedule(BMul(BNat(principal), payment.d), payment.n, FALSE)
        end   == AmortYears(start, rate, years)
    IN  ~payment.neg /\ ~end.over /\ end.bal = <<>>

\* |x - cents/100| < tol/100
Near(x, cents, tol) ==
    RLt(RAbs(RSub(x, RQ(cents, 100))), RQ(tol, 100))

Called(f) == pc = "done" /\ fn = f

\* C1: for every principal P > 0, whole-percent rate r > 0 and term Y,
\* monthly_payment(P, r, Y) is a number, and charging r/1200 interest on the
\* balance and subtracting that payment 12*Y times takes the balance from P
\* to exactly zero; 200000 at 6% over 30 years gives 1199.10 and 150000 at
\* 4% over 15 years gives 1109.53, to the cent.
C1_PaymentAmortizes ==
    (Called("monthly_payment") /\ args[1] > 0 /\ args[2] > 0) =>
        /\ result.kind = "num"
        /\ AmortizesToZero(args[1], args[2], args[3], result.val)
        /\ (args = <<200000, 6, 30>> => Near(result.val, 119910, 1))
        /\ (args = <<150000, 4, 15>> => Near(result.val, 110953, 1))

C1_Witness ==
    /\ Called("monthly_payment")
    /\ args = <<200000, 6, 30>>
    /\ result.kind = "num"
    /\ Near(result.val, 119910, 1)
    /\ AmortizesToZero(200000, 6, 30, result.val)

\* C2: at a rate of exactly 0, monthly_payment(P, 0, Y) is a number equal to
\* P / (12*Y) and raises nothing; monthly_payment(12000, 0, 5) is exactly 200.
C2_ZeroRatePayment ==
    (Called("monthly_payment") /\ args[2] = 0) =>
        /\ result.kind = "num"
        /\ REq(result.val, RQ(args[1], 12 * args[3]))
        /\ (args = <<12000, 0, 5>> => REq(result.val, RI(200)))

C2_Witness ==
    /\ Called("monthly_payment")
    /\ args = <<12000, 0, 5>>
    /\ result = Num(RI(200))

\* C3: total_interest(P, r, Y) equals monthly_payment(P, r, Y) * 12*Y - P; it
\* is exactly 0 when r = 0, never negative for r >= 0, and within 1 of 231676
\* for 200000 at 6% over 30 years.
C3_TotalInterest ==
    Called("total_interest") =>
        LET payment == monthly_payment(RI(args[1]), RI(args[2]), RI(args[3]))
        IN  /\ result.kind = "num"
            /\ payment.kind = "num"
            /\ REq(result.val,
                   RSub(RMul(payment.val, RI(12 * args[3])), RI(args[1])))
            /\ (args[2] = 0 => RIsZero(result.val))
            /\ (args[2] >= 0 => RLe(RZero, result.val))
            /\ (args = <<200000, 6, 30>> => Near(result.val, 23167600, 100))

C3_Witness ==
    /\ Called("total_interest")
    /\ args = <<200000, 6, 30>>
    /\ result.kind = "num"
    /\ Near(result.val, 23167600, 100)
    /\ RLt(RZero, result.val)

-----------------------------------------------------------------------------
(* Compounding with a withdrawal, for the claims about future_value: each  *)
(* period the balance grows, the drawdown is taken, and a balance that     *)
(* would go below zero is held at zero.                                    *)

RECURSIVE DrawdownBalance(_, _, _, _)
DrawdownBalance(balance, rate_per_period, drawdown, periods) ==
    IF periods = 0 THEN balance
    ELSE LET grown == RSub(RMul(balance, RAdd(RI(1), rate_per_period)), drawdown)
             left  == IF RLt(grown, RZero) THEN RZero ELSE grown
         IN  DrawdownBalance(left, rate_per_period, drawdown, periods - 1)

Compounded(present_value, annual_rate, periods_per_year, years) ==
    RMul(RI(present_value),
         RPow(RAdd(RI(1), RQ(annual_rate, 100 * periods_per_year)),
              periods_per_year * years))

\* C4: future_value called with a drawdown returns the balance left after
\* growth and the drawdown in each of periods_per_year * years periods, held
\* at zero once it is used up: a number, never negative;
\* future_value(50000, 5, 1, 10, 20000) is 0 and
\* future_value(100000, 7, 1, 5, 10000) is 82747.78 to the cent.
C4_DrawdownFlooredAtZero ==
    (Called("future_value") /\ Len(args) = 5) =>
        /\ result.kind = "num"
        /\ RLe(RZero, result.val)
        /\ REq(result.val,
               DrawdownBalance(RI(args[1]), RQ(args[2], 100 * args[3]),
                               RI(args[5]), args[3] * args[4]))
        /\ (args = <<50000, 5, 1, 10, 20000>> => RIsZero(result.val))
        /\ (args = <<100000, 7, 1, 5, 10000>> => Near(result.val, 8274778, 1))

\* C5: future_value takes a fifth drawdown argument, and with that drawdown
\* 0 the call returns what the four-argument call returns,
\* present_value * (1 + annual_rate/100/periods_per_year) ^
\* (periods_per_year * years); future_value(2, 50, 1, 1) is 3 and
\* future_value(2, 50, 1, 2) is 4.5.
C5_ZeroDrawdownIsFourArgumentCall ==
    (Called("future_value") /\ (Len(args) = 5 => args[5] = 0)) =>
        /\ result.kind = "num"
        /\ result = call_future_value(SubSeq(args, 1, 4))
        /\ REq(result.val, Compounded(args[1], args[2], args[3], args[4]))
        /\ (SubSeq(args, 1, 4) = <<2, 50, 1, 1>> => REq(result.val, RI(3)))
        /\ (SubSeq(args, 1, 4) = <<2, 50, 1, 2>> => REq(result.val, RQ(9, 2)))

-----------------------------------------------------------------------------
(* The value after k years of a stash growing at rate percent a year with  *)
(* annual_savings added at the end of each year.                           *)

StashAfter(rate, annual_savings, stash, k) ==
    LET growth == RPow(RAdd(RI(1), RQ(rate, 100)), k)
    IN  RAdd(RMul(RI(stash), growth),
             RDiv(RMul(RI(annual_savings), RSub(growth, RI(1))), RQ(rate, 100)))

\* C6: for a rate r > 0 and fi_number > stash > 0, fi_age returns
\* current_age + k for the whole number k >= 0 of years with
\* value(k) <= fi_number < value(k + 1), where value(n) =
\* stash*(1+r/100)^n + annual_savings*((1+r/100)^n - 1)/(r/100): the solution
\* n of value(n) = fi_number truncated to an integer.  With no savings and a
\* target of twice the stash at 8% it is current_age + 9, which is
\* current_age + rule_of_72(8, False).
C6_AgeSolvesAnnuity ==
    (Called("fi_age") /\ args[1] > 0 /\ args[3] > 0 /\ args[4] > args[3]) =>
        /\ result.kind = "num"
        /\ RIsInt(result.val)
        /\ LET k == RInt(result.val) - args[5]
           IN  /\ k >= 0
               /\ RLe(StashAfter(args[1], args[2], args[3], k), RI(args[4]))
               /\ RLt(RI(args[4]), StashAfter(args[1], args[2], args[3], k + 1))
        /\ (args[1] = 8 /\ args[2] = 0 /\ args[4] = 2 * args[3] =>
               /\ result = Num(RI(args[5] + 9))
               /\ REq(result.val,
                      RAdd(RI(args[5]), rule_of_72(RI(8), FALSE).val)))

C6_Witness ==
    /\ Called("fi_age")
    /\ args = <<8, 0, 400000, 800000, 20>>
    /\ result = Num(RI(29))

\* C7: when the target is already met (stash >= fi_number) fi_age returns an
\* age that is never lower than current_age.
C7_AgeNotBelowCurrent ==
    (Called("fi_age") /\ args[3] >= args[4]) =>
        /\ result.kind = "num"
        /\ RLe(RI(args[5]), result.val)

\* C8: with annual_savings_amount 0 and a return of 0 and fi_number > stash,
\* fi_age returns a value and raises nothing.
C8_UnreachableTargetReturns ==
    (Called("fi_age") /\ args[1] = 0 /\ args[2] = 0 /\ args[4] > args[3]) =>
        ~Raises(result)

-----------------------------------------------------------------------------
(* Division by zero.                                                       *)

\* the call divides by an input that is zero
ZeroDivisor ==
    /\ pc = "done"
    /\ \/ fn \in {"annual_cost", "cost_per_use", "pot_score"} /\ args[3] = 0
       \/ fn \in {"average_daily_spend", "fi_number", "buy_a_day_of_freedom",
                  "get_percentage", "hours_of_life_energy"} /\ args[2] = 0
       \/ fn \in {"days_covered_by_fi", "rule_of_72", "savings_rate",
                  "percent_increase", "percent_decrease"} /\ args[1] = 0
       \/ fn = "real_hourly_wage" /\ args[1] + args[4] = 0

Sentinel(v) ==
    \/ v.kind \in {"inf", "nan"}
    \/ v.kind = "num" /\ RIsZero(v.val)

Guarded == {"rule_of_72", "hours_of_life_energy", "percent_increase",
            "percent_decrease"}

Unguarded == {"annual_cost", "cost_per_use", "average_daily_spend",
              "fi_number", "buy_a_day_of_freedom", "days_covered_by_fi",
              "get_percentage", "pot_score", "real_hourly_wage"}

\* C9 as stated: every function that divides by one of its inputs returns a
\* sentinel (positive infinity, zero or not-a-number) when that divisor is
\* zero and raises nothing.
C9_EveryDivisionReturnsSentinel ==
    ZeroDivisor => (Sentinel(result) /\ ~Raises(result))

\* C9 amended: on a zero divisor rule_of_72 returns positive infinity,
\* hours_of_life_energy returns 0 and percent_increase and percent_decrease
\* return not-a-number; annual_cost, cost_per_use, average_daily_spend,
\* fi_number, buy_a_day_of_freedom, days_covered_by_fi, get_percentage,
\* pot_score and real_hourly_wage have no guard and raise ZeroDivisionError,
\* decimal.DivisionByZero or decimal.InvalidOperation.
C9_SentinelOnlyWhereGuarded ==
    ZeroDivisor =>
        /\ fn = "rule_of_72" => result = PosInf
        /\ fn = "hours_of_life_energy" => result = Num(RI(0))
        /\ fn \in {"percent_increase", "percent_decrease"} => result = NaN
        /\ fn \in Unguarded =>
              /\ Raises(result)
              /\ result.exc \in ZeroDivisionErrors \cup {"InvalidOperation"}

C9_Witness ==
    /\ Called("fi_number")
    /\ args = <<40000, 0>>
    /\ result = Raise("DivisionByZero")

\* C10: savings_rate returns 0 and raises nothing whenever take_home_pay is
\* 0, whatever the spending, 0 included; otherwise it returns
\* (take_home_pay - spending) / take_home_pay * 100.
C10_SavingsRateZeroPay ==
    Called("savings_rate") =>
        /\ result.kind = "num"
        /\ IF args[1] = 0
           THEN RIsZero(result.val)
           ELSE REq(result.val,
                    RMul(RQ(args[1] - args[2], args[1]), RI(100)))

-----------------------------------------------------------------------------
(* The doubling rule, percentage changes, cost per use, the FI number.     *)

\* C11: rule_of_72(0), rule_of_72(0, True) and rule_of_72(0, False) return
\* positive infinity; for a non-zero rate the result is 69.3/rate when
\* accurate is true (the default) and 72/rate when it is false.
C11_RuleOf72 ==
    Called("rule_of_72") =>
        LET accurate == IF Len(args) = 1 THEN TRUE ELSE args[2]
        IN  IF args[1] = 0 THEN result = PosInf
            ELSE /\ result.kind = "num"
                 /\ REq(result.val,
                        IF accurate THEN RQ(693, 10 * args[1])
                        ELSE RQ(72, args[1]))

C11_Witness ==
    /\ Called("rule_of_72")
    /\ args = <<0>>
    /\ result = PosInf

\* C12: percent_decrease(0, f) and percent_increase(0, f) return not-a-number
\* and raise nothing for every f, 0 included; a non-zero original value gives
\* a finite number: percent_decrease(10, 0) is 100 and
\* percent_increase(-10, 10) is 200.
C12_PercentChangeOfZero ==
    (pc = "done" /\ fn \in {"percent_decrease", "percent_increase"}) =>
        /\ args[1] = 0 => result = NaN
        /\ args[1] # 0 => result.kind = "num"
        /\ (fn = "percent_decrease" /\ args = <<10, 0>>) =>
               REq(result.val, RI(100))
        /\ (fn = "percent_increase" /\ args = <<-10, 10>>) =>
               REq(result.val, RI(200))

C12_Witness ==
    /\ Called("percent_decrease")
    /\ args = <<0, 0>>
    /\ result = NaN

\* C13: for every cost, used_price and divisor d, cost_per_use(cost,
\* used_price, d) and annual_cost(cost, used_price, d) have the same outcome:
\* the same exception when one raises, and otherwise the same value,
\* (cost - used_price) / d.
C13_CostPerUseIsAnnualCost ==
    (pc = "done" /\ fn \in {"cost_per_use", "annual_cost"}) =>
        LET other == IF fn = "cost_per_use"
                     THEN annual_cost(RI(args[1]), RI(args[2]), RI(args[3]))
                     ELSE cost_per_use(RI(args[1]), RI(args[2]), RI(args[3]))
        IN  /\ result = other
            /\ Raises(result) <=> args[3] = 0
            /\ args[3] # 0 =>
                   /\ result.kind = "num"
                   /\ REq(result.val, RQ(args[1] - args[2], args[3]))

C13_Witness ==
    /\ Called("cost_per_use")
    /\ args = <<75, 15, 15>>
    /\ result = Num(RI(4))

\* C15: fi_number(expenses, rate) is expenses * 100 / rate for every non-zero
\* rate, so at a rate of 4 it is 25 times the expenses: fi_number(40000, 4)
\* is 1000000, fi_number(12000, 4) is 300000, fi_number(24000, 4) is 600000.
C15_FiNumber ==
    (Called("fi_number") /\ args[2] # 0) =>
        /\ result.kind = "num"
        /\ REq(result.val, RQ(args[1] * 100, args[2]))
        /\ args[2] = 4 => REq(result.val, RI(25 * args[1]))
        /\ args = <<40000, 4>> => REq(result.val, RI(1000000))
        /\ args = <<12000, 4>> => REq(result.val, RI(300000))
        /\ args = <<24000, 4>> => REq(result.val, RI(600000))

C15_Witness ==
    /\ Called("fi_number")
    /\ args = <<40000, 4>>
    /\ result = Num(RI(1000000))

-----------------------------------------------------------------------------
(* Coast FI.                                                               *)

\* the result r of coast_fi satisfies r * (1 + eiar/100)^(years) = target
CoastGrowsToTarget ==
    LET growth == RAdd(RI(1), RQ(args[2], 100))
        years  == args[3] - args[4]
    IN  /\ result.kind = "num"
        /\ IF years >= 0
           THEN REq(RMul(result.val, RPow(growth, years)), RI(args[1]))
           ELSE REq(result.val, RMul(RI(args[1]), RPow(growth, -years)))
        /\ args[2] = 0 => REq(result.val, RI(args[1]))
        /\ args = <<2000000, 7, 62, 31>> => RInt(RTrunc(result.val)) = 245546

\* C14 as stated: coast_fi(target, 0, retirement_age, current_age) is target
\* for every target and pair of ages; in general coast_fi is
\* target / (1 + eiar/100)^(retirement_age - current_age), and for eiar > 0
\* and retirement_age > current_age it is strictly below the target.
C14_CoastBelowTarget ==
    Called("coast_fi") =>
        /\ CoastGrowsToTarget
        /\ (args[2] > 0 /\ args[3] > args[4]) => RLt(result.val, RI(args[1]))

\* C14 amended: as above, but the coast number is strictly below the target
\* only for a target > 0; for a target of 0 it is 0, the target itself.
C14_CoastBelowPositiveTarget ==
    Called("coast_fi") =>
        /\ CoastGrowsToTarget
        /\ (args[2] > 0 /\ args[3] > args[4]) =>
               IF args[1] > 0 THEN RLt(result.val, RI(args[1]))
               ELSE RIsZero(result.val)

C14_Witness ==
    /\ Called("coast_fi")
    /\ args = <<2000000, 7, 62, 31>>
    /\ result.kind = "num"
    /\ RInt(RTrunc(result.val)) = 245546
    /\ RLt(result.val, RI(2000000))

-----------------------------------------------------------------------------
(* Chase points.                                                           *)

\* C16: redeem_chase_points(points) returns a record with exactly the four
\* entries 'Cash value', 'Sapphire Preferred portal', 'Sapphire Reserve
\* portal' and 'Target partner exchange', equal to redeem_points(points) at
\* the rates 1, 1.25, 1.5 and 2 (500, 625, 750 and 1000 for 50000 points);
\* for points >= 0 the four values do not decrease in that order.
C16_ChasePoints ==
    Called("redeem_chase_points") =>
        /\ result.kind = "dict"
        /\ DOMAIN result.val = ChaseKeys
        /\ LET points == RI(args[1])
               cv     == result.val["Cash value"]
               spp    == result.val["Sapphire Preferred portal"]
               srp    == result.val["Sapphire Reserve portal"]
               tpe    == result.val["Target partner exchange"]
           IN  /\ Num(cv) = redeem_points(points, RI(1))
               /\ Num(spp) = redeem_points(points, RQ(125, 100))
               /\ Num(srp) = redeem_points(points, RQ(150, 100))
               /\ Num(tpe) = redeem_points(points, RI(2))
               /\ args[1] = 50000 =>
                      /\ REq(cv, RI(500)) /\ REq(spp, RI(625))
                      /\ REq(srp, RI(750)) /\ REq(tpe, RI(1000))
               /\ args[1] >= 0 =>
                      RLe(cv, spp) /\ RLe(spp, srp) /\ RLe(srp, tpe)

C16_Witness ==
    /\ Called("redeem_chase_points")
    /\ args = <<50000>>
    /\ result.kind = "dict"
    /\ REq(result.val["Cash value"], RI(500))
    /\ REq(result.val["Target partner exchange"], RI(1000))


-----------------------------------------------------------------------------
(* The commands.                                                           *)

Ran(cmd) == pc = "exited" /\ fn = cmd

Numeric(argv) == \A i \in 1..Len(argv) : argv[i].text = "number"

\* the value of the i-th numeric string of the command line
Given(i) == RI(args[i].value)

\* the positional arguments each command declares
Positionals ==
    [c \in {"run_rule_of_72", "run_redeem_chase_points", "run_redeem_points",
            "run_buy_a_day_of_freedom"} |-> 1]
    @@ [c \in {"run_average_daily_spend", "run_days_covered_by_fi",
               "run_fi_number", "run_get_percentage", "run_hours_of_life_energy",
               "run_percent_decrease", "run_percent_increase",
               "run_savings_rate"} |-> 2]
    @@ [c \in {"run_annual_cost", "run_cost_per_use", "run_pot_score",
               "run_stock_returns"} |-> 3]
    @@ [c \in {"run_coast_fi", "run_future_value"} |-> 4]
    @@ [c \in {"run_fi_age", "run_real_hourly_wage"} |-> 5]

\* the command has printed v, and nothing else, and exited with status 0
PrintedValue(v) ==
    /\ result = v
    /\ stdout = <<Line("", v)>>
    /\ status = 0

\* C17: a command given well-formed numeric strings converts them, calls its
\* library function, prints the value the function returns and exits with
\* status 0; stated for the commands future_value, coast_fi, annual_cost,
\* savings_rate and stock_returns, wherever the library function returns.
C17_CommandPrintsLibraryValue ==
    /\ Ran("run_future_value") /\ Numeric(args) /\ Len(args) = 4
        => LET v == future_value(Given(1), Given(2), Given(3), Given(4))
           IN  ~Raises(v) => PrintedValue(v)
    /\ Ran("run_coast_fi") /\ Numeric(args) /\ Len(args) = 4
        => LET v == coast_fi(Given(1), Given(2), Given(3), Given(4))
           IN  ~Raises(v) => PrintedValue(v)
    /\ Ran("run_annual_cost") /\ Numeric(args) /\ Len(args) = 3
        => LET v == annual_cost(Given(1), Given(2), Given(3))
           IN  ~Raises(v) => PrintedValue(v)
    /\ Ran("run_savings_rate") /\ Numeric(args) /\ Len(args) = 2
        => LET v == savings_rate(Given(1), Given(2))
           IN  ~Raises(v) => PrintedValue(v)
    /\ Ran("run_stock_returns") /\ Numeric(args) /\ Len(args) = 3
        => LET v == stock_returns(Given(1), Given(2), Given(3))
           IN  ~Raises(v) => PrintedValue(v)

\* C18: the redeem_chase_points command prints a labeled report of several
\* lines that carries the four entries of the library's record, and exits
\* with status 0.
C18_ChaseReportPrinted ==
    Ran("run_redeem_chase_points") /\ Numeric(args) /\ Len(args) = 1
        => LET cp == redeem_chase_points(Given(1)).val
           IN  /\ status = 0
               /\ Len(stdout) >= 4
               /\ stdout[1].value = Num(cp["Cash value"])
               /\ stdout[2].value = Num(cp["Sapphire Preferred portal"])
               /\ stdout[3].value = Num(cp["Sapphire Reserve portal"])
               /\ stdout[4].value = Num(cp["Target partner exchange"])

\* a required argument is missing
MissingArgument == Numeric(args) /\ Len(args) < Positionals[fn]

\* a string that is no number stands where a number is expected
NonNumericString == \E i \in 1..Len(args) : args[i] = Word

\* C19: every command answers an invalid invocation, a missing argument or a
\* non-numeric string, with a usage message and a non-zero exit status, and
\* prints no result.
C19_InvalidInvocationGetsUsage ==
    pc = "exited" /\ (MissingArgument \/ NonNumericString)
        => /\ stderr = "usage"
           /\ status # 0
           /\ stdout = <<>>

\* C20: the rule_of_72 command computes 72 / rate without -a and 69.3 / rate
\* with -a, for every non-zero rate.
C20_AccurateFlagSelectsConstant ==
    Ran("run_rule_of_72")
        => /\ \A r \in -MaxRate..MaxRate :
                  r # 0 /\ args = <<Str(r)>>
                      => PrintedValue(rule_of_72(RI(r), FALSE))
           /\ \A r \in -MaxRate..MaxRate :
                  r # 0 /\ args \in WithFlag(<<Str(r)>>, "-a")
                      => PrintedValue(rule_of_72(RI(r), TRUE))


-----------------------------------------------------------------------------
(* The guarded formulas, the percentages.                                  *)

\* C23: hours_of_life_energy returns 0 and raises nothing whenever
\* real_hourly_wage is 0, for every money_spent, 0 included; otherwise it
\* returns money_spent / real_hourly_wage.
C23_LifeEnergyZeroWage ==
    Called("hours_of_life_energy") =>
        /\ result.kind = "num"
        /\ IF args[2] = 0
           THEN RIsZero(result.val)
           ELSE REq(result.val, RDiv(RI(args[1]), RI(args[2])))

C23_Witness ==
    /\ Called("hours_of_life_energy")
    /\ args = <<20, 0>>
    /\ result = Num(RI(0))

\* -1, 0 or 1 as x is negative, zero or positive
Sign(x) == IF RIsZero(x) THEN 0 ELSE IF x.neg THEN -1 ELSE 1

\* C24: for every non-zero original value o and every final value f,
\* percent_decrease(o, f) is non-negative and is the absolute value of
\* percent_increase(o, f), that is |f - o| / |o| * 100, and
\* percent_increase(o, f) has the sign of f - o; percent_decrease(-5, -10)
\* is 100, percent_decrease(5, -5) is 200 and percent_decrease(2, 2) is 0.
C24_DecreaseIsAbsoluteIncrease ==
    (pc = "done" /\ fn \in {"percent_decrease", "percent_increase"}
                 /\ args[1] # 0) =>
        LET o      == RI(args[1])
            f      == RI(args[2])
            change == RMul(RDiv(RAbs(RSub(f, o)), RAbs(o)), RI(100))
        IN  /\ result.kind = "num"
            /\ fn = "percent_decrease" =>
                   /\ ~result.val.neg
                   /\ REq(result.val, RAbs(percent_increase(o, f).val))
                   /\ REq(result.val, change)
                   /\ args = <<-5, -10>> => REq(result.val, RI(100))
                   /\ args = <<5, -5>> => REq(result.val, RI(200))
                   /\ args = <<2, 2>> => RIsZero(result.val)
            /\ fn = "percent_increase" =>
                   /\ Sign(result.val) = Sign(RSub(f, o))
                   /\ REq(RAbs(result.val), change)

C24_Witness ==
    /\ Called("percent_increase")
    /\ args = <<-5, -10>>
    /\ result = Num(RI(-100))


\* C27: for b # 0, get_percentage(a, b, i, r) returns 100 * a / b unrounded
\* when i and r are both False, rounded to two decimal places when i is
\* False and r is True, and rounded to the nearest whole number whenever i
\* is True, whatever r is; the warning is issued exactly when i is True and
\* r is False.
C27_PercentageRounding ==
    (Called("get_percentage") /\ args[2] # 0) =>
        LET i     == args[3]
            r     == args[4]
            exact == RDiv(RI(100 * args[1]), RI(args[2]))
            off   == RAbs(RSub(result.val, exact))
        IN  /\ result.kind = "num"
            /\ (~i /\ ~r) => REq(result.val, exact)
            /\ (~i /\ r) => /\ RIsInt(RMul(result.val, RI(100)))
                            /\ RLe(off, RQ(1, 200))
            /\ i => /\ RIsInt(result.val)
                    /\ RLe(off, RQ(1, 2))
            /\ warned <=> (i /\ ~r)

C27_Witness ==
    /\ Called("get_percentage")
    /\ args = <<2, 3, TRUE, FALSE>>
    /\ result = Num(RI(67))
    /\ warned


-----------------------------------------------------------------------------
(* Rewards points.                                                         *)

\* C29: redeem_points(points, rate) is a money amount of exactly two decimal
\* places, points * rate / 100 rounded to the nearest cent with exact halves
\* rounded away from zero; the rate defaults to 1, and
\* redeem_points(50000, 1.25) is 625.
C29_RedeemRoundsHalfUp ==
    Called("redeem_points") =>
        LET points == RI(args[1])
            rate   == IF Len(args) = 1 THEN RI(1) ELSE RQ(args[2], 100)
            exact  == RDiv(RMul(points, rate), RI(100))
        IN  /\ result.kind = "num"
            /\ RIsInt(RMul(result.val, RI(100)))
            /\ REq(result.val, QuantizeCents(exact))
            /\ args = <<50000, 125>> => REq(result.val, RI(625))


-----------------------------------------------------------------------------
(* Real estate, investment costs.                                          *)

\* C22: cap_rate(net_operating_income, property_value) is
\* net_operating_income / property_value * 100 for a non-zero property
\* value, 6 for 18000 on 300000, and is 0, with nothing raised, for a
\* property value of 0.
C22_CapRate ==
    Called("cap_rate") =>
        /\ result.kind = "num"
        /\ IF args[2] = 0
           THEN RIsZero(result.val)
           ELSE REq(RMul(result.val, RI(args[2])), RI(100 * args[1]))
        /\ args = <<18000, 300000>> => REq(result.val, RI(6))

C22_Witness ==
    /\ Called("cap_rate")
    /\ args = <<10000, 0>>
    /\ result = Num(RI(0))

-----------------------------------------------------------------------------
(* Days covered by the stash.                                              *)

\* C25: days_covered_by_fi(annual_spend, stash, rate), for a positive
\* annual_spend, is 365 * stash * (rate / 100) / annual_spend: exactly 365
\* when the stash is the FI number annual_spend * 100 / rate, 0 when the
\* stash is 0, strictly increasing in the rate and in the stash, and 182.5
\* for 40000 spent with 500000 saved at 4%.
C25_DaysCovered ==
    (Called("days_covered_by_fi") /\ args[1] > 0) =>
        LET annual_spend == RI(args[1])
            stash        == RI(args[2])
            rate         == RI(args[3])
            more_rate    == days_covered_by_fi(annual_spend, stash, RI(args[3] + 1))
            more_stash   == days_covered_by_fi(annual_spend, RI(args[2] + 1), rate)
        IN  /\ result.kind = "num"
            /\ REq(result.val,
                   RDiv(RMul(RI(365), RMul(stash, RDiv(rate, RI(100)))), annual_spend))
            /\ args[2] * args[3] = args[1] * 100 => REq(result.val, RI(365))
            /\ args[2] = 0 => RIsZero(result.val)
            /\ RLt(result.val, more_rate.val)
            /\ RLt(result.val, more_stash.val)
            /\ args = <<40000, 500000, 4>> => REq(result.val, RQ(3650, 20))


-----------------------------------------------------------------------------
(* State shared between calls.                                             *)

\* C21: the library has no shared mutable state: what a call does depends
\* only on its arguments (and on the life table it reads), so the same call
\* made after different calls does the same, and no call writes anything
\* another call reads.  A step that is a library call leaves the warning
\* registry as it was, and a call that issues a warning shows it.
C21_CallsShareNoState ==
    [][pc' = "done" =>
          /\ registry' = registry
          /\ warned' => stderr' = "UserWarning"]_vars


-----------------------------------------------------------------------------
(* Remaining life expectancy.                                              *)

\* the call again, with the table it read, in another unit or with another
\* setting of exclude_time_asleep
Again(time_unit, exclude_time_asleep) ==
    remaining_life_expectancy(life_table, args[1], time_unit, args[3],
                              exclude_time_asleep).val

\* C26: for a fixed age the units agree: months = 12 * years,
\* days = year_len * years and hours = 24 * days, with year_len 365 when
\* more_accurate is False and 365.2425 when it is True, and with
\* exclude_time_asleep the value is exactly half of the value without it,
\* in every unit.
C26_UnitsAgree ==
    (Called("remaining_life_expectancy") /\ result.kind = "num") =>
        LET time_unit == args[2]
            year_len  == IF args[3] THEN RQ(3652425, 10000) ELSE RI(365)
            years     == Again("years", args[4])
        IN  /\ time_unit = "months" => REq(result.val, RMul(RI(12), years))
            /\ time_unit = "days" => REq(result.val, RMul(year_len, years))
            /\ time_unit = "hours" =>
                   REq(result.val, RMul(RI(24), Again("days", args[4])))
            /\ args[4] =>
                   REq(RMul(RI(2), result.val), Again(time_unit, FALSE))

\* bands that follow one another from 0, closed by the row for the rest
ContiguousFromZero(table) ==
    /\ Len(table) >= 1
    /\ \A i \in 1..(Len(table) - 1) : table[i].age = Band(i - 1, i)
    /\ table[Len(table)].age = AndOver(Len(table) - 1)

\* C30: the row is chosen by lower <= age < upper, the last row standing
\* for 100 and over: in a table of contiguous bands from 0 every age >= 0
\* matches exactly one row, the last one from 100 on, and the function
\* returns that row's expectancy and does not fail.
C30_OneRowForEveryAge ==
    (Called("remaining_life_expectancy") /\ args[1] >= 0
         /\ ContiguousFromZero(life_table)) =>
        LET your_age == args[1]
            row      == IF your_age >= 100 THEN Len(life_table) ELSE your_age + 1
        IN  /\ {i \in 1..Len(life_table) :
                   InRange(age_ranges(life_table)[i], your_age)} = {row}
            /\ result.kind = "num"
            /\ (args[2] = "years" /\ ~args[4]) =>
                   REq(result.val, life_table[row].expectation)

C30_Witness ==
    /\ Called("remaining_life_expectancy")
    /\ args = <<120, "years", TRUE, FALSE>>
    /\ result = Num(RQ(23, 10))

====
